---- MODULE Spec2Model ----
(***************************************************************************)
(* Model of the candidate re-processing pipeline of natsec-hack-ais        *)
(* (src/filter_vlm_processing/vlm_processing.py): load_ais_data,           *)
(* create_trajectories, count_self_proximity_hits, the classifier and the  *)
(* VLM verification inside process_trajectories, and save_vlm_results.     *)
(*                                                                         *)
(* Units: distances are whole metres of the projected plane, speeds are    *)
(* tenths of a knot (1.5 kn is 15).  An optional number (avg_sog, which    *)
(* pandas makes NaN when there is no SOG) is a sequence: << >> is NaN,     *)
(* <<v>> is the value v.  Sequences are 1-based, so index k of the model   *)
(* is index k-1 of the Python code; index differences are the same.        *)
(***************************************************************************)
EXTENDS Integers, Sequences, FiniteSets, TLC

\* ------------------------------------------------------------------ bounds

\* Number of vessel groups (MMSI 1..NumVessels) in the input table.
NumVessels == 2
\* Longest trajectory drawn point by point from Grid in SpecProx.
MaxLen == 6
\* Rounds of the classifier driven with drawn Metrics in SpecClassifier.
MaxRounds == 2
\* How far below and above a threshold the drawn Metrics values reach.
Spread == 1
\* Runs that save into the same output directory in SpecRuns.
NumRuns == 2
\* Ticks of the clock in one second, and the last tick of the clock.
TicksPerSecond == 2
MaxTicks == 3
\* Longest CSV file, in rows, in SpecLoad.
MaxRows == 3

\* ------------------------------------------------------- program constants

\* def create_trajectories(df, min_points: int = 2): the default, which the
\* run would use had __main__ not passed min_points (the mutant of MinPoints).
MinPointsDefault == 2
\* create_trajectories(candidate_df, min_points=5) in __main__.
MinPoints == 5
\* count_self_proximity_hits: len(coords_list) < 5 returns 0.
MinProximityPoints == 5
\* proximity_threshold_meters: float = 200.0
DefaultProximity == 200
\* THRESHOLDS = {'speed': 1.5, 'size': 500.0, 'hits': 50}, speed in tenths.
DefaultSpeed == 15
DefaultSize == 500
DefaultHits == 50

THRESHOLDS == [speed |-> DefaultSpeed, size |-> DefaultSize, hits |-> DefaultHits]

\* --------------------------------------------------------------- geometry

Max(a, b) == IF a >= b THEN a ELSE b
Abs(a) == IF a >= 0 THEN a ELSE -a

\* Squared Euclidean distance of two projected points <<x, y>>.
Dist2(p, q) == (p[1] - q[1]) * (p[1] - q[1]) + (p[2] - q[2]) * (p[2] - q[2])

RECURSIVE SqrtSearch(_, _, _)
SqrtSearch(n, lo, hi) ==
    IF lo >= hi THEN lo
    ELSE LET mid == (lo + hi + 1) \div 2
         IN IF mid * mid <= n THEN SqrtSearch(n, mid, hi)
            ELSE SqrtSearch(n, lo, mid - 1)

\* The square root rounded down to whole metres (exact for axis-parallel
\* segments).  The search stops at 46340, the largest root of a 32-bit square.
ISqrt(n) == SqrtSearch(n, 0, IF n > 46340 THEN 46340 ELSE n)

\* projected_line.length: the sum of the segment lengths.
RECURSIVE LengthFrom(_, _)
LengthFrom(coords, k) ==
    IF k >= Len(coords) THEN 0
    ELSE ISqrt(Dist2(coords[k], coords[k + 1])) + LengthFrom(coords, k + 1)

Length(coords) == LengthFrom(coords, 1)

SetMax(S) == CHOOSE m \in S : \A x \in S : x <= m
SetMin(S) == CHOOSE m \in S : \A x \in S : m <= x

\* projected_line.bounds: maxx - minx and maxy - miny.
BBoxWidth(coords) ==
    LET xs == {coords[k][1] : k \in 1..Len(coords)} IN SetMax(xs) - SetMin(xs)
BBoxHeight(coords) ==
    LET ys == {coords[k][2] : k \in 1..Len(coords)} IN SetMax(ys) - SetMin(ys)

\* ----------------------------------------------- count_self_proximity_hits

\* Mutant: the window is at least 1, so that on a track of fewer than twenty
\* fixes the fix after next is compared too.
AdjacencyWindowFromOne(total_points) == Max(1, total_points \div 10)

\* adjacency_window = max(2, int(total_points * 0.1)); int() truncates, and
\* for the lengths of a track the float product truncates to total_points
\* div 10.
AdjacencyWindow(total_points) == Max(2, total_points \div 10)

\* Mutant: a pair exactly adjacency_window apart is compared too.
SkipPairOffByOne(i, j, adjacency_window) == Abs(i - j) < adjacency_window

\* if abs(i - j) <= adjacency_window: continue
SkipPair(i, j, adjacency_window) == Abs(i - j) <= adjacency_window

\* dist = distance.euclidean(coords[i], coords[j]); dist < threshold
IsHit(p, q, threshold) == Dist2(p, q) < threshold * threshold

\* for j in range(i + 1, total_points): the hits the inner loop adds to
\* hit_count from index j on, for one i.
RECURSIVE InnerLoop(_, _, _, _, _)
InnerLoop(coords, threshold, adjacency_window, i, j) ==
    IF j > Len(coords) THEN 0
    ELSE IF SkipPair(i, j, adjacency_window)
         THEN InnerLoop(coords, threshold, adjacency_window, i, j + 1)
         ELSE (IF IsHit(coords[i], coords[j], threshold) THEN 1 ELSE 0)
              + InnerLoop(coords, threshold, adjacency_window, i, j + 1)

\* for i in range(total_points): the hits the outer loop adds from index i on.
RECURSIVE OuterLoop(_, _, _, _)
OuterLoop(coords, threshold, adjacency_window, i) ==
    IF i > Len(coords) THEN 0
    ELSE InnerLoop(coords, threshold, adjacency_window, i, i + 1)
         + OuterLoop(coords, threshold, adjacency_window, i + 1)

\* The outcomes of gs.to_crs(target_crs): the projected line, an exception,
\* or an empty geometry.
ProjectionOutcomes == {"ok", "raise", "empty"}

\* count_self_proximity_hits(trajectory, proximity_threshold_meters).  coords
\* are the points of the trajectory as to_crs projects them; projection is the
\* outcome of that to_crs call.
count_self_proximity_hits(coords, threshold, projection) ==
    IF Len(coords) < MinProximityPoints THEN 0
    ELSE IF projection # "ok" THEN 0
    ELSE OuterLoop(coords, threshold, AdjacencyWindow(Len(coords)), 1)

\* ------------------------------------------------------------- input tracks

\* A run of n fixes that repeats the positions pattern[1], pattern[2], ...
Repeat(pattern, n) == [k \in 1..n |-> pattern[((k - 1) % Len(pattern)) + 1]]

\* Three fixes: below every minimum point count.
ShortTrack == <<<<0, 0>>, <<300, 0>>, <<600, 0>>>>

\* Six fixes going back and forth five times between a and b.
BackAndForth(a, b) == <<a, b, a, b, a, b>>

\* Positions of a 100 m x 100 m box.
BoxPositions == {<<x, y>> : x \in {0, 50, 100}, y \in {0, 50, 100}}

\* Six fixes 300 m apart on a straight line.
StraightTrack == [k \in 1..6 |-> <<300 * (k - 1), 0>>]

\* Fifty fixes on five parallel lines 50 m apart, each 2 km long with ten
\* fixes, sailed in alternating directions (mowing the lawn).
MowingTrack ==
    [k \in 1..50 |->
        LET line == (k - 1) \div 10
            step == (k - 1) % 10
            along == IF line % 2 = 0 THEN step ELSE 9 - step
        IN <<(2000 * along) \div 9, 50 * line>>]

\* Thirty fixes: six positions of a 100 m x 100 m box visited five times over.
ClusterTrack ==
    Repeat(<<<<0, 0>>, <<50, 0>>, <<100, 0>>, <<100, 100>>, <<50, 100>>, <<0, 100>>>>, 30)

Tracks ==
    [short |-> ShortTrack,
     boxed |-> BackAndForth(<<0, 0>>, <<100, 100>>),
     straight |-> StraightTrack,
     mowing |-> MowingTrack,
     cluster |-> ClusterTrack]

NaN == << >>

\* The vessel groups an input table is drawn from: a track and the mean of
\* the group's SOG column (NaN when the table has no SOG).
VesselGroups ==
    {[track |-> "short", sog |-> <<5>>],
     [track |-> "boxed", sog |-> <<5>>],
     [track |-> "straight", sog |-> <<80>>],
     [track |-> "mowing", sog |-> <<80>>],
     [track |-> "cluster", sog |-> <<5>>],
     [track |-> "cluster", sog |-> NaN],
     [track |-> "cluster", sog |-> <<80>>]}

\* ------------------------------------------------------------- the classifier

LikelyJitter == "Likely Jitter"
LikelyJitterNoSog == "Likely Jitter (No SOG)"
PotentialPattern == "Potential Pattern for VLM"
NoSignificantProximity == "No Significant Proximity"
Other == "Other"

Classifications == {LikelyJitter, LikelyJitterNoSog, PotentialPattern, NoSignificantProximity}

\* pd.isna(metrics['avg_sog'])
IsNa(x) == x = NaN

\* Mutant: equality to the speed threshold satisfies the branch.
SlowInclusive(m, t) == m.avg_sog[1] <= t.speed

\* metrics['avg_sog'] < thresholds['speed']
Slow(m, t) == m.avg_sog[1] < t.speed

\* Mutant: any hit at all makes a small track busy, the hits threshold is
\* not consulted.
SmallAndBusyAnyHit(m, t) ==
    /\ m.bbox_width_m < t.size
    /\ m.bbox_height_m < t.size
    /\ m.proximity_hits > 0

\* bbox_width_m < size and bbox_height_m < size and proximity_hits > hits
SmallAndBusy(m, t) ==
    /\ m.bbox_width_m < t.size
    /\ m.bbox_height_m < t.size
    /\ m.proximity_hits > t.hits

\* Mutant: the no-SOG branch hangs on the inner if, so a vessel with speed data
\* that is too fast for the first branch falls into it.
JitterBranchDangling(m, t) ==
    IF ~IsNa(m.avg_sog) /\ Slow(m, t) /\ SmallAndBusy(m, t) THEN LikelyJitter
    ELSE IF SmallAndBusy(m, t) THEN LikelyJitterNoSog
    ELSE Other

\* Lines 276-294: the if / elif that sets is_likely_jitter; Other when neither
\* branch assigns.
JitterBranch(m, t) ==
    IF ~IsNa(m.avg_sog)
    THEN IF Slow(m, t) /\ SmallAndBusy(m, t) THEN LikelyJitter ELSE Other
    ELSE IF SmallAndBusy(m, t) THEN LikelyJitterNoSog
    ELSE Other

\* Lines 297-306: if not is_likely_jitter: proximity_hits > 0 ...
ProximityBranch(m) ==
    IF m.proximity_hits > 0 THEN PotentialPattern ELSE NoSignificantProximity

\* Lines 276-306 as a whole: the classification of one vessel.
Classify(m, t) ==
    LET jitter == JitterBranch(m, t)
    IN IF jitter # Other THEN jitter ELSE ProximityBranch(m)

\* The counters with the jitter without speed data counted under no_prox.
CounterOfNoSogApart(c) ==
    CASE c = LikelyJitter -> "jitter"
      [] c = LikelyJitterNoSog -> "no_prox"
      [] c = PotentialPattern -> "pattern_vlm"
      [] c = NoSignificantProximity -> "no_prox"

\* The counter a classification increments and the key of its plot directory.
CounterOf(c) ==
    CASE c \in {LikelyJitter, LikelyJitterNoSog} -> "jitter"
      [] c = PotentialPattern -> "pattern_vlm"
      [] c = NoSignificantProximity -> "no_prox"

PlotDirOf(c) ==
    CASE c \in {LikelyJitter, LikelyJitterNoSog} -> "jitter"
      [] c = PotentialPattern -> "pattern"
      [] c = NoSignificantProximity -> "no_prox"

\* ---------------------------------------------------------- the VLM verifier

\* Mutant: every plotted vessel is sent to the service.
SendsToVlmAlways(c) == TRUE

\* Mutant: the comparison uses a label the classifier never assigns.
SendsToVlmWrongLabel(c) == c = "Potential Pattern"

\* if classification == "Potential Pattern for VLM":
SendsToVlm(c) == c = PotentialPattern

ReplyLikely ==
    "{\"classification\": \"LIKELY_SURVEY_PATTERN\", \"explanation\": \"parallel lines\"}"
ReplyPossible ==
    "{\"classification\": \"POSSIBLE_SURVEY_PATTERN\", \"explanation\": \"some lines\"}"
ReplyUnlikely ==
    "{\"classification\": \"UNLIKELY_SURVEY_PATTERN\", \"explanation\": \"transit\"}"
ReplyUnlikelyPadded ==
    "  {\"classification\": \"UNLIKELY_SURVEY_PATTERN\", \"explanation\": \"transit\"}  "
ReplyProse == "This trajectory looks like a hydrographic survey."
ReplyArray == "[\"LIKELY_SURVEY_PATTERN\"]"
ReplyNoField == "{\"explanation\": \"parallel lines\"}"
ReplyOtherLabel ==
    "{\"classification\": \"DEFINITE_SURVEY_PATTERN\", \"explanation\": \"lines\"}"

\* message.content[0].text of the replies the service is modelled to give.
ReplyTexts ==
    {ReplyLikely, ReplyPossible, ReplyUnlikelyPadded, ReplyProse, ReplyArray,
     ReplyNoField, ReplyOtherLabel}

\* What client.messages.create does: it raises, or it returns a reply text.
ServiceOutcomes ==
    {[raised |-> TRUE, text |-> "Request timed out."]}
        \cup {[raised |-> FALSE, text |-> t] : t \in ReplyTexts}

\* str.strip() on the reply texts.
Strip(text) == IF text = ReplyUnlikelyPadded THEN ReplyUnlikely ELSE text

\* analyze_trajectory_with_claude: the stripped reply, or "ERROR: <exception>".
analyze_trajectory_with_claude(outcome) ==
    IF outcome.raised THEN "ERROR: " \o outcome.text ELSE Strip(outcome.text)

\* The texts analyze_trajectory_with_claude can return.
VlmResults == {analyze_trajectory_with_claude(o) : o \in ServiceOutcomes}

\* json.loads on those texts: an object with its fields, another JSON value,
\* or a JSONDecodeError.
JsonLoads(text) ==
    CASE text = ReplyLikely ->
            [kind |-> "object",
             fields |-> [classification |-> "LIKELY_SURVEY_PATTERN",
                         explanation |-> "parallel lines"]]
      [] text = ReplyPossible ->
            [kind |-> "object",
             fields |-> [classification |-> "POSSIBLE_SURVEY_PATTERN",
                         explanation |-> "some lines"]]
      [] text = ReplyUnlikely ->
            [kind |-> "object",
             fields |-> [classification |-> "UNLIKELY_SURVEY_PATTERN",
                         explanation |-> "transit"]]
      [] text = ReplyOtherLabel ->
            [kind |-> "object",
             fields |-> [classification |-> "DEFINITE_SURVEY_PATTERN",
                         explanation |-> "lines"]]
      [] text = ReplyNoField ->
            [kind |-> "object", fields |-> [explanation |-> "parallel lines"]]
      [] text = ReplyArray -> [kind |-> "array", fields |-> << >>]
      [] text \in {ReplyProse, "ERROR: Request timed out."} ->
            [kind |-> "invalid", fields |-> << >>]

\* extract_classification: JSONDecodeError gives "PARSING_ERROR"; .get on a
\* value that is no object raises AttributeError, which gives "ERROR"; an
\* object without the field gives the default "UNKNOWN".
extract_classification(vlm_result) ==
    LET result_json == JsonLoads(vlm_result)
    IN IF result_json.kind = "invalid" THEN "PARSING_ERROR"
       ELSE IF result_json.kind # "object" THEN "ERROR"
       ELSE IF "classification" \in DOMAIN result_json.fields
            THEN result_json.fields["classification"]
            ELSE "UNKNOWN"

\* Mutant: a failed or malformed reply is asked for a second time.
CallsMadeRetry(vessel, outcome) ==
    IF outcome.raised \/ JsonLoads(analyze_trajectory_with_claude(outcome)).kind # "object"
    THEN <<vessel, vessel>> ELSE <<vessel>>

\* Line 319: analyze_trajectory_with_claude is called once, whatever it returns.
CallsMade(vessel, outcome) == <<vessel>>

\* -------------------------------------------------------------------- state

Vessels == 1..NumVessels

VARIABLES
    pc,                  \* the statement the run is at
    csv,                 \* the input file: unreadable, or the group of each MMSI
    candidate_df,        \* what load_ais_data returned (MMSI -> group)
    vessel_trajectories, \* the MMSIs create_trajectories emitted, in dict order
    todo,                \* the MMSIs the loop of process_trajectories has left
    thresholds,          \* the thresholds argument of process_trajectories
    mmsi,                \* the loop variable
    metrics,             \* the metrics dict of the current iteration
    classification,      \* the classification of the current iteration
    plot_dir,            \* the plot_dir of the current iteration
    counts,              \* the counts dict
    pattern_mmsis,       \* the pattern_mmsis list
    pattern_info,        \* the pattern_info list
    printed,             \* MMSI -> classification of the result lines printed
    plot_files,          \* plot directory -> MMSIs with a trajectory_<mmsi>.png
    vlm_calls,           \* the MMSIs analyze_trajectory_with_claude was called for
    output_files,        \* the result files in the output directory
    error_log,           \* the error lines printed: [mmsi, error], mmsi 0 for the run
    now,                 \* the clock, in ticks
    run_pc,              \* SpecRuns: run -> where the run is
    run_info,            \* SpecRuns: run -> the pattern_info it has to save
    run_files,           \* SpecRuns: run -> the names of the files it wrote
    raw_rows,            \* SpecLoad: the rows of the CSV file, in file order
    min_points_arg,      \* SpecLoad: the min_points the caller gives, or None
    df_rows,             \* SpecLoad: the rows load_ais_data returns
    trajectories,        \* SpecLoad: MMSI -> points, as create_trajectories returns
    centroid,            \* SpecProject: <<lat, lon>> of traj.centroid, tenths of a degree
    target_crs,          \* SpecProject: the CRS handed to gs.to_crs
    projected_line,      \* SpecProject: the coordinates to_crs returned
    fin,                 \* SpecStream: the rows of the input CSV
    reader,              \* SpecStream: the number of rows the reader has yielded
    fout,                \* SpecStream: the rows written so far
    prev,                \* SpecStream: the prev dict
    rounds,              \* SpecClassifier: Metrics values drawn so far
    trajectory,          \* SpecProx: the projected points of the trajectory
    proximity_threshold, \* SpecProx: proximity_threshold_meters
    hit_count            \* SpecProx: what count_self_proximity_hits returned

vars ==
    <<pc, csv, candidate_df, vessel_trajectories, todo, thresholds, mmsi, metrics,
      classification, plot_dir, counts, pattern_mmsis, pattern_info, printed,
      plot_files, vlm_calls, output_files, error_log, now, run_pc, run_info,
      run_files, raw_rows, min_points_arg, df_rows, trajectories, centroid, target_crs,
      projected_line, fin, reader, fout, prev, rounds, trajectory,
      proximity_threshold, hit_count>>

proxVars == <<trajectory, proximity_threshold, hit_count>>

runVars == <<now, run_pc, run_info, run_files>>

fnVars ==
    <<raw_rows, min_points_arg, df_rows, trajectories, centroid, target_crs, projected_line,
      fin, reader, fout, prev>>

\* pd.DataFrame(): the empty table load_ais_data returns on any error.
EmptyFrame == << >>
None == "None"

\* metrics = {}: no key is read before the iteration assigns it.
EmptyMetrics ==
    [avg_sog |-> NaN, length_m |-> 0, bbox_width_m |-> 0, bbox_height_m |-> 0,
     proximity_hits |-> 0]

\* counts = {'jitter': 0, 'pattern_vlm': 0, 'no_prox': 0, 'processed': 0,
\*           'plotted': 0, 'likely_survey': 0, 'possible_survey': 0}
ZeroCounts ==
    [jitter |-> 0, pattern_vlm |-> 0, no_prox |-> 0, processed |-> 0, plotted |-> 0,
     likely_survey |-> 0, possible_survey |-> 0]

\* The keys of PLOT_DIRS that hold images.
PlotDirs == {"jitter", "pattern", "no_prox", "likely_survey", "possible_survey"}

\* The state every specification starts the pipeline part in.
PipelineStart ==
    /\ candidate_df = EmptyFrame
    /\ vessel_trajectories = << >>
    /\ todo = << >>
    /\ mmsi = 0
    /\ metrics = EmptyMetrics
    /\ classification = Other
    /\ plot_dir = None
    /\ counts = ZeroCounts
    /\ pattern_mmsis = << >>
    /\ pattern_info = << >>
    /\ printed = << >>
    /\ plot_files = [d \in PlotDirs |-> {}]
    /\ vlm_calls = << >>
    /\ output_files = {}
    /\ error_log = {}

ProxIdle ==
    /\ trajectory = << >>
    /\ proximity_threshold = DefaultProximity
    /\ hit_count = -1

\* No table is being loaded row by row.
LoadIdle ==
    /\ raw_rows = << >>
    /\ min_points_arg = << >>
    /\ df_rows = << >>
    /\ trajectories = << >>

\* No projection is being chosen.
ProjectIdle ==
    /\ centroid = <<0, 0>>
    /\ target_crs = [proj |-> "none", zone |-> 0, south |-> FALSE]
    /\ projected_line = << >>

\* No stream is being flagged.
StreamIdle ==
    /\ fin = << >>
    /\ reader = 0
    /\ fout = << >>
    /\ prev = << >>

FnIdle == LoadIdle /\ ProjectIdle /\ StreamIdle

\* One run, whose clock reading does not matter.
RunsIdle ==
    /\ now = 0
    /\ run_pc = << >>
    /\ run_info = << >>
    /\ run_files = << >>
    /\ FnIdle

\* An input file that cannot be read, or is no CSV.
NoFile == [readable |-> FALSE, has_columns |-> FALSE, groups |-> EmptyFrame]

\* __main__ up to the call of load_ais_data: the input file is missing or
\* unreadable, or holds one group of fixes per MMSI, with or without every one
\* of the columns MMSI, LAT and LON.
Init ==
    /\ pc = "load"
    /\ csv \in {NoFile}
                \cup {[readable |-> TRUE, has_columns |-> h, groups |-> g] :
                          h \in BOOLEAN, g \in [Vessels -> VesselGroups]}
    /\ thresholds = THRESHOLDS
    /\ rounds = 0
    /\ PipelineStart
    /\ ProxIdle
    /\ RunsIdle

\* ------------------------------------------------------------------ __main__

\* load_ais_data with the except clauses answering with what was read so far.
load_ais_data_partial(file) == IF file.readable THEN file.groups ELSE EmptyFrame

\* load_ais_data: pd.read_csv raises on a missing or unreadable file, the check
\* of required_cols raises ValueError, and every except clause returns
\* pd.DataFrame().
load_ais_data(file) ==
    IF file.readable /\ file.has_columns THEN file.groups ELSE EmptyFrame

\* candidate_df = load_ais_data(...); if not candidate_df.empty: ... else the
\* run prints "Loading candidate data failed" and finishes.
LoadAisData ==
    /\ pc = "load"
    /\ candidate_df' = load_ais_data(csv)
    /\ pc' = IF DOMAIN candidate_df' = {} THEN "done" ELSE "create"
    /\ UNCHANGED <<csv, error_log, vessel_trajectories, todo, thresholds, mmsi, metrics,
                   classification, plot_dir, counts, pattern_mmsis, pattern_info,
                   printed, plot_files, vlm_calls, output_files, rounds>>
    /\ UNCHANGED <<proxVars, runVars, fnVars>>

RECURSIVE Ascending(_)
Ascending(S) ==
    IF S = {} THEN << >>
    ELSE LET m == SetMin(S) IN <<m>> \o Ascending(S \ {m})

\* create_trajectories with the groups yielded in descending MMSI order.
create_trajectories_descending(df, min_points) ==
    LET emitted == Ascending({v \in DOMAIN df : Len(Tracks[df[v].track]) >= min_points})
    IN [k \in 1..Len(emitted) |-> emitted[Len(emitted) + 1 - k]]

\* create_trajectories: gdf.groupby('MMSI') yields the groups in ascending
\* MMSI order; a group is emitted if len(group) >= min_points.
create_trajectories(df, min_points) ==
    Ascending({v \in DOMAIN df : Len(Tracks[df[v].track]) >= min_points})

\* vessel_trajectories = create_trajectories(candidate_df, min_points=5);
\* if vessel_trajectories: process_trajectories(...), which starts with fresh
\* counts and lists.
CreateTrajectories ==
    /\ pc = "create"
    /\ vessel_trajectories' = create_trajectories(candidate_df, MinPoints)
    /\ todo' = vessel_trajectories'
    /\ pc' = IF vessel_trajectories' = << >> THEN "done" ELSE "loop"
    /\ UNCHANGED <<csv, error_log, candidate_df, thresholds, mmsi, metrics, classification,
                   plot_dir, counts, pattern_mmsis, pattern_info, printed, plot_files,
                   vlm_calls, output_files, rounds>>
    /\ UNCHANGED <<proxVars, runVars, fnVars>>

\* ------------------------------------------------------ process_trajectories

\* for mmsi, traj in trajectories.items(): classification = "Other";
\* plot_dir = None; metrics = {}
LoopNext ==
    /\ pc = "loop"
    /\ todo # << >>
    /\ mmsi' = Head(todo)
    /\ todo' = Tail(todo)
    /\ classification' = Other
    /\ plot_dir' = None
    /\ metrics' = EmptyMetrics
    /\ pc' = "metrics"
    /\ UNCHANGED <<csv, error_log, candidate_df, vessel_trajectories, thresholds, counts,
                   pattern_mmsis, pattern_info, printed, plot_files, vlm_calls,
                   output_files, rounds>>
    /\ UNCHANGED <<proxVars, runVars, fnVars>>

\* The loop is exhausted: return counts, pattern_mmsis, pattern_info;
\* print_summary(results); if pattern_info: save_vlm_results(...)
LoopExit ==
    /\ pc = "loop"
    /\ todo = << >>
    /\ pc' = IF pattern_info # << >> THEN "save" ELSE "done"
    /\ UNCHANGED <<csv, error_log, candidate_df, vessel_trajectories, todo, thresholds, mmsi,
                   metrics, classification, plot_dir, counts, pattern_mmsis,
                   pattern_info, printed, plot_files, vlm_calls, output_files, rounds>>
    /\ UNCHANGED <<proxVars, runVars, fnVars>>

\* Lines 250-274, with the projected line as gs.to_crs returns it.  The second
\* to_crs, inside count_self_proximity_hits, is the same call on the same
\* arguments and has the same outcome.
MetricsOf(group) ==
    LET coords == Tracks[group.track]
    IN [avg_sog |-> group.sog,
        length_m |-> Length(coords),
        bbox_width_m |-> BBoxWidth(coords),
        bbox_height_m |-> BBoxHeight(coords),
        proximity_hits |-> count_self_proximity_hits(coords, DefaultProximity, "ok")]

\* The metrics of every group, computed once.
GroupMetrics == [g \in VesselGroups |-> MetricsOf(g)]

\* The except clause of the iteration with the exception raised again: the
\* run ends inside process_trajectories.
ExceptClauseReraises == "crashed"

\* Mutant: the except clause ends the iteration like a continue, without the
\* statement after the try.
ExceptClauseContinues == "loop"

\* except Exception as e (lines 348-351): the error is printed and the
\* iteration goes on after the try statement, at line 353.
ExceptClause == "end"

\* print(f"{mmsi_str} - Error during processing loop: {e}")
LoopError(vessel) == [mmsi |-> vessel, error |-> "Error during processing loop"]

\* print(f"MMSI: {mmsi} - Could not project trajectory for metrics.")
ProjectError(vessel) == [mmsi |-> vessel, error |-> "Could not project trajectory"]

\* print(f"MMSI: {mmsi} - Error during plotting: {e}") in plot_trajectory
PlotError(vessel) == [mmsi |-> vessel, error |-> "Error during plotting"]

\* Lines 249-274.  to_crs raises: the except clause of the iteration runs.  The
\* projected line is empty: continue, which skips counts['processed'] += 1.
ComputeMetrics ==
    /\ pc = "metrics"
    /\ \E projection \in ProjectionOutcomes :
          \/ /\ projection = "ok"
             /\ metrics' = GroupMetrics[candidate_df[mmsi]]
             /\ pc' = "classify"
             /\ UNCHANGED error_log
          \/ /\ projection = "raise"
             /\ metrics' = [metrics EXCEPT !.avg_sog = candidate_df[mmsi].sog]
             /\ error_log' = error_log \cup {LoopError(mmsi)}
             /\ pc' = ExceptClause
          \/ /\ projection = "empty"
             /\ metrics' = [metrics EXCEPT !.avg_sog = candidate_df[mmsi].sog]
             /\ error_log' = error_log \cup {ProjectError(mmsi)}
             /\ pc' = "loop"
    /\ UNCHANGED <<csv, candidate_df, vessel_trajectories, todo, thresholds, mmsi,
                   classification, plot_dir, counts, pattern_mmsis, pattern_info,
                   printed, plot_files, vlm_calls, output_files, rounds>>
    /\ UNCHANGED <<proxVars, runVars, fnVars>>

\* Lines 276-308: the classification, its counter, pattern_mmsis, plot_dir and
\* the printed result line.
ClassifyVessel ==
    /\ pc = "classify"
    /\ classification' = Classify(metrics, thresholds)
    /\ counts' = [counts EXCEPT ![CounterOf(classification')] = @ + 1]
    /\ pattern_mmsis' = IF classification' = PotentialPattern
                        THEN Append(pattern_mmsis, mmsi) ELSE pattern_mmsis
    /\ plot_dir' = PlotDirOf(classification')
    /\ printed' = (mmsi :> classification') @@ printed
    /\ pc' = "plot"
    /\ UNCHANGED <<csv, error_log, candidate_df, vessel_trajectories, todo, thresholds, mmsi,
                   metrics, pattern_info, plot_files, vlm_calls, output_files, rounds>>
    /\ UNCHANGED <<proxVars, runVars, fnVars>>

\* Lines 310-317: plot_trajectory returns True after saving the image, or
\* False after catching an error; only a plotted potential pattern goes on to
\* the VLM.
PlotVessel ==
    /\ pc = "plot"
    /\ plot_dir # None
    /\ \E plotted \in BOOLEAN :
          \/ /\ plotted
             /\ plot_files' = [plot_files EXCEPT ![plot_dir] = @ \cup {mmsi}]
             /\ counts' = [counts EXCEPT !.plotted = @ + 1]
             /\ pc' = IF SendsToVlm(classification) THEN "verify" ELSE "end"
             /\ UNCHANGED error_log
          \/ /\ ~plotted
             /\ UNCHANGED <<plot_files, counts>>
             /\ error_log' = error_log \cup {PlotError(mmsi)}
             /\ pc' = "end"
    /\ UNCHANGED <<csv, candidate_df, vessel_trajectories, todo, thresholds, mmsi,
                   metrics, classification, plot_dir, pattern_mmsis, pattern_info,
                   printed, vlm_calls, output_files, rounds>>
    /\ UNCHANGED <<proxVars, runVars, fnVars>>

\* The record appended to pattern_info (lines 326-335).
PatternRecord(vessel, m, survey_classification, vlm_result) ==
    [mmsi |-> vessel,
     length_m |-> m.length_m,
     avg_sog |-> m.avg_sog,
     prox_hits |-> m.proximity_hits,
     bbox_width_m |-> m.bbox_width_m,
     bbox_height_m |-> m.bbox_height_m,
     survey_classification |-> survey_classification,
     vlm_raw_result |-> vlm_result]

\* The copy made for every survey label, the unlikely one included.
SurveyDirOfAnyLabel(survey_classification) ==
    CASE survey_classification = "LIKELY_SURVEY_PATTERN" -> "likely_survey"
      [] survey_classification = "POSSIBLE_SURVEY_PATTERN" -> "possible_survey"
      [] survey_classification = "UNLIKELY_SURVEY_PATTERN" -> "possible_survey"
      [] OTHER -> None

\* The plot directory a survey classification copies the image to.
SurveyDirOf(survey_classification) ==
    CASE survey_classification = "LIKELY_SURVEY_PATTERN" -> "likely_survey"
      [] survey_classification = "POSSIBLE_SURVEY_PATTERN" -> "possible_survey"
      [] OTHER -> None

\* Lines 318-335: the call of the service, the extraction of the
\* classification and the append to pattern_info.
VerifyVessel ==
    /\ pc = "verify"
    /\ \E outcome \in ServiceOutcomes :
          LET vlm_result == analyze_trajectory_with_claude(outcome)
              survey_classification == extract_classification(vlm_result)
          IN /\ vlm_calls' = vlm_calls \o CallsMade(mmsi, outcome)
             /\ pattern_info' =
                    Append(pattern_info,
                           PatternRecord(mmsi, metrics, survey_classification, vlm_result))
             /\ pc' = IF SurveyDirOf(survey_classification) # None THEN "copy" ELSE "end"
    /\ UNCHANGED <<csv, error_log, candidate_df, vessel_trajectories, todo, thresholds, mmsi,
                   metrics, classification, plot_dir, counts, pattern_mmsis, printed,
                   plot_files, output_files, rounds>>
    /\ UNCHANGED <<proxVars, runVars, fnVars>>

\* Lines 338-347: shutil.copy2 copies the image and the counter is incremented,
\* or it raises and the except clause of the iteration runs.
CopyPlot ==
    /\ pc = "copy"
    /\ LET dir == SurveyDirOf(pattern_info[Len(pattern_info)].survey_classification)
       IN \E copied \in BOOLEAN :
             \/ /\ copied
                /\ plot_files' = [plot_files EXCEPT ![dir] = @ \cup {mmsi}]
                /\ counts' = [counts EXCEPT ![dir] = @ + 1]
                /\ UNCHANGED error_log
                /\ pc' = "end"
             \/ /\ ~copied
                /\ UNCHANGED <<plot_files, counts>>
                /\ error_log' = error_log \cup {LoopError(mmsi)}
                /\ pc' = ExceptClause
    /\ UNCHANGED <<csv, candidate_df, vessel_trajectories, todo, thresholds, mmsi,
                   metrics, classification, plot_dir, pattern_mmsis, pattern_info,
                   printed, vlm_calls, output_files, rounds>>
    /\ UNCHANGED <<proxVars, runVars, fnVars>>

\* Line 353, after the try statement: counts['processed'] += 1
EndIteration ==
    /\ pc = "end"
    /\ counts' = [counts EXCEPT !.processed = @ + 1]
    /\ pc' = "loop"
    /\ UNCHANGED <<csv, error_log, candidate_df, vessel_trajectories, todo, thresholds, mmsi,
                   metrics, classification, plot_dir, pattern_mmsis, pattern_info,
                   printed, plot_files, vlm_calls, output_files, rounds>>
    /\ UNCHANGED <<proxVars, runVars, fnVars>>

\* ---------------------------------------------------------- save_vlm_results

\* row = {k: info[k] for k in fieldnames if k in info}, with the fieldnames of
\* the summary file.
SummaryRow(info) ==
    [mmsi |-> info.mmsi,
     length_m |-> info.length_m,
     avg_sog |-> info.avg_sog,
     prox_hits |-> info.prox_hits,
     bbox_width_m |-> info.bbox_width_m,
     bbox_height_m |-> info.bbox_height_m,
     survey_classification |-> info.survey_classification]

\* datetime.now().strftime("%Y%m%d_%H%M%S"): the clock reading cut to the
\* whole second.
Timestamp(tick) == tick \div TicksPerSecond

\* f"vlm_analysis_results_{timestamp}.csv" with one row per info.
SummaryFile(infos, timestamp) ==
    [name |-> <<"vlm_analysis_results", timestamp>>,
     rows |-> [k \in 1..Len(infos) |-> SummaryRow(infos[k])]]

\* The full file written with the fieldnames of the summary file.
FullFileWithoutRaw(infos, timestamp) ==
    [name |-> <<"vlm_analysis_full", timestamp>>,
     rows |-> [k \in 1..Len(infos) |-> SummaryRow(infos[k])]]

\* f"vlm_analysis_full_{timestamp}.csv": writer.writerow(info) for every info,
\* with all eight fieldnames.
FullFile(infos, timestamp) ==
    [name |-> <<"vlm_analysis_full", timestamp>>, rows |-> infos]

\* What the two open(filename, 'w') calls can do.
SaveOutcomes == {"ok", "summary fails", "full fails"}

\* The files save_vlm_results writes when called at clock reading tick: none
\* for an empty pattern_info; the summary file first, then the full file, both
\* with the one timestamp taken at the start; an exception at either is caught.
save_vlm_results(infos, tick, outcome) ==
    LET timestamp == Timestamp(tick)
    IN IF infos = << >> THEN {}
       ELSE CASE outcome = "ok" ->
                     {SummaryFile(infos, timestamp), FullFile(infos, timestamp)}
              [] outcome = "summary fails" -> {}
              [] outcome = "full fails" -> {SummaryFile(infos, timestamp)}

\* open(filename, 'w') creates the file or replaces the file of that name.
WriteFiles(directory, files) ==
    {f \in directory : \A g \in files : g.name # f.name} \cup files

\* print(f"Error saving VLM results: {e}")
SaveError == [mmsi |-> 0, error |-> "Error saving VLM results"]

\* if pattern_info: save_vlm_results(pattern_info, PLOT_DIRS['base']); the
\* except clause prints the error and the function returns; __main__ prints
\* "Reprocessing finished." either way.
SaveVlmResults ==
    /\ pc = "save"
    /\ pattern_info # << >>
    /\ \E outcome \in SaveOutcomes :
          /\ output_files' =
                 WriteFiles(output_files, save_vlm_results(pattern_info, now, outcome))
          /\ error_log' = IF outcome = "ok" THEN error_log
                          ELSE error_log \cup {SaveError}
    /\ pc' = "done"
    /\ UNCHANGED <<csv, candidate_df, vessel_trajectories, todo, thresholds, mmsi,
                   metrics, classification, plot_dir, counts, pattern_mmsis,
                   pattern_info, printed, plot_files, vlm_calls, rounds>>
    /\ UNCHANGED <<proxVars, runVars, fnVars>>

Next ==
    \/ LoadAisData
    \/ CreateTrajectories
    \/ LoopNext
    \/ LoopExit
    \/ ComputeMetrics
    \/ ClassifyVessel
    \/ PlotVessel
    \/ VerifyVessel
    \/ CopyPlot
    \/ EndIteration
    \/ SaveVlmResults

Spec == Init /\ [][Next]_vars

\* ------------------------------------------- the classifier on drawn Metrics

\* The thresholds triples the classifier is driven with.
ThresholdGrid ==
    {THRESHOLDS,
     [speed |-> 30, size |-> 200, hits |-> 0],
     [speed |-> 15, size |-> 500, hits |-> 5]}

Around(x) == (x - Spread)..(x + Spread)

\* Metrics values around the thresholds t: avg_sog NaN or a value, the box
\* sides, and a hit count near 0 or near the hits threshold.
MetricsGrid(t) ==
    [avg_sog : {NaN} \cup {<<v>> : v \in Around(t.speed)},
     length_m : {0},
     bbox_width_m : Around(t.size),
     bbox_height_m : Around(t.size),
     proximity_hits : {h \in (0..Spread) \cup Around(t.hits) : h >= 0}]

InitClassifier ==
    /\ pc = "draw"
    /\ csv = NoFile
    /\ thresholds \in ThresholdGrid
    /\ rounds = 0
    /\ PipelineStart
    /\ ProxIdle
    /\ RunsIdle

\* The next iteration of the loop with the metrics of lines 249-274 drawn from
\* the grid instead of computed from a track.
DrawMetrics ==
    /\ pc \in {"draw", "plot"}
    /\ rounds < MaxRounds
    /\ rounds' = rounds + 1
    /\ mmsi' = rounds + 1
    /\ metrics' \in MetricsGrid(thresholds)
    /\ classification' = Other
    /\ plot_dir' = None
    /\ pc' = "classify"
    /\ UNCHANGED <<csv, error_log, candidate_df, vessel_trajectories, todo, thresholds, counts,
                   pattern_mmsis, pattern_info, printed, plot_files, vlm_calls,
                   output_files>>
    /\ UNCHANGED <<proxVars, runVars, fnVars>>

NextClassifier ==
    \/ DrawMetrics
    \/ ClassifyVessel

SpecClassifier == InitClassifier /\ [][NextClassifier]_vars

\* ----------------------------------- count_self_proximity_hits on drawn tracks

\* Three positions: a and b are exactly 200 m apart, a and c exactly 150 m,
\* b and c a little over 120 m.
GridPoints == {<<0, 0>>, <<120, 160>>, <<0, 150>>}

ProxThresholds == {DefaultProximity, 150, 120}

\* Every track of up to MaxLen fixes on the grid.
ShortGridTracks == UNION {[1..n -> GridPoints] : n \in 3..MaxLen}

\* Long tracks, whose adjacency window is 2, 3 or 4: a pattern of one to three
\* grid positions repeated.  12 and 13 are the lengths on either side of the
\* smallest track that can collect more hits than the default hits threshold.
LongLengths == {12, 13, 20, 29, 30, 31, 40}
LongGridTracks ==
    {Repeat(p, n) : p \in UNION {[1..k -> GridPoints] : k \in 1..3}, n \in LongLengths}

\* Twenty fixes 100 m apart around a square of side 400 m: the last four fixes
\* return to the first four positions.
SquareTrack ==
    [k \in 1..20 |->
        LET d == (100 * (k - 1)) % 1600
        IN CASE d < 400 -> <<d, 0>>
             [] d >= 400 /\ d < 800 -> <<400, d - 400>>
             [] d >= 800 /\ d < 1200 -> <<1200 - d, 400>>
             [] d >= 1200 -> <<0, 1600 - d>>]

ProxTracks ==
    ShortGridTracks \cup LongGridTracks
        \cup {SquareTrack, MowingTrack, ClusterTrack, StraightTrack}

InitProx ==
    /\ pc = "count"
    /\ csv = NoFile
    /\ thresholds = THRESHOLDS
    /\ rounds = 0
    /\ PipelineStart
    /\ RunsIdle
    /\ trajectory \in ProxTracks
    /\ proximity_threshold \in ProxThresholds
    /\ hit_count = -1

\* One call of count_self_proximity_hits(trajectory, proximity_threshold).
CountHits ==
    /\ pc = "count"
    /\ \E projection \in ProjectionOutcomes :
          /\ hit_count' = count_self_proximity_hits(trajectory, proximity_threshold, projection)
          /\ pc' = IF projection = "ok" THEN "counted" ELSE "count failed"
    /\ UNCHANGED <<csv, error_log, candidate_df, vessel_trajectories, todo, thresholds, mmsi,
                   metrics, classification, plot_dir, counts, pattern_mmsis,
                   pattern_info, printed, plot_files, vlm_calls, output_files, rounds,
                   trajectory, proximity_threshold>>
    /\ UNCHANGED <<runVars, fnVars>>

NextProx == CountHits

SpecProx == InitProx /\ [][NextProx]_vars

\* ------------------------------------ runs saving into one output directory

Runs == 1..NumRuns

\* The record a run appends for the mowing pattern of vessel v after the reply.
RunRecord(v, reply) ==
    PatternRecord(v, GroupMetrics[[track |-> "mowing", sog |-> <<80>>]],
                  extract_classification(reply), reply)

\* The pattern_info lists the runs come to save_vlm_results with.
RunInfos ==
    {<< >>,
     <<RunRecord(1, ReplyLikely)>>,
     <<RunRecord(1, ReplyPossible), RunRecord(2, ReplyProse)>>}

\* Every run has returned from process_trajectories with its pattern_info; the
\* runs share PLOT_DIRS['base'] and the clock.
InitRuns ==
    /\ pc = "runs"
    /\ csv = NoFile
    /\ thresholds = THRESHOLDS
    /\ rounds = 0
    /\ PipelineStart
    /\ ProxIdle
    /\ FnIdle
    /\ now = 0
    /\ run_pc = [r \in Runs |-> [at |-> "main", tick |-> 0]]
    /\ run_info \in [Runs -> RunInfos]
    /\ run_files = [r \in Runs |-> {}]

pipelineVars ==
    <<pc, csv, candidate_df, vessel_trajectories, todo, thresholds, mmsi, metrics,
      classification, plot_dir, counts, pattern_mmsis, pattern_info, printed,
      plot_files, vlm_calls, rounds>>

\* The clock advances by one tick.
Tick ==
    /\ now < MaxTicks
    /\ now' = now + 1
    /\ UNCHANGED <<fnVars, pipelineVars, proxVars, output_files, error_log, run_pc, run_info,
                   run_files>>

\* if pattern_info: save_vlm_results(...), up to datetime.now(); a run with an
\* empty pattern_info finishes without the call.
RunTakesTimestamp(r) ==
    /\ run_pc[r].at = "main"
    /\ run_pc' = [run_pc EXCEPT ![r] = IF run_info[r] = << >>
                                        THEN [at |-> "done", tick |-> 0]
                                        ELSE [at |-> "write", tick |-> now]]
    /\ UNCHANGED <<fnVars, pipelineVars, proxVars, output_files, error_log, now, run_info,
                   run_files>>

\* The rest of save_vlm_results: the two files are written under the names
\* made from the timestamp taken before.
RunWrites(r) ==
    /\ run_pc[r].at = "write"
    /\ \E outcome \in SaveOutcomes :
          LET files == save_vlm_results(run_info[r], run_pc[r].tick, outcome)
          IN /\ output_files' = WriteFiles(output_files, files)
             /\ run_files' = [run_files EXCEPT ![r] = {f.name : f \in files}]
             /\ error_log' = IF outcome = "ok" THEN error_log
                             ELSE error_log \cup {SaveError}
    /\ run_pc' = [run_pc EXCEPT ![r].at = "done"]
    /\ UNCHANGED <<fnVars, pipelineVars, proxVars, now, run_info>>

NextRuns ==
    \/ Tick
    \/ \E r \in Runs : RunTakesTimestamp(r)
    \/ \E r \in Runs : RunWrites(r)

SpecRuns == InitRuns /\ [][NextRuns]_vars

\* --------------------------- load_ais_data and create_trajectories, row by row

\* pd.to_datetime(df['BaseDateTime'], errors='coerce'): the minute of the
\* timestamp, or NaT for an empty or unparsable cell.
ParseTime(cell) ==
    CASE cell = "2024-01-01T00:01:00" -> <<1>>
      [] cell = "2024-01-01T00:02:00" -> <<2>>
      [] cell = "2024-01-01T00:03:00" -> <<3>>
      [] OTHER -> NaN

\* A row of the CSV file: MMSI, LAT and LON in whole degrees, each possibly
\* empty, and the BaseDateTime cell as text.
Row(m, lat, lon, time) == [MMSI |-> m, LAT |-> lat, LON |-> lon, BaseDateTime |-> time]

\* The rows the files are made of: fixes of vessels 1 and 2 with timestamps out
\* of file order, on and beyond the bounds of latitude and longitude, and with
\* an empty identifier or coordinate.
RowPool ==
    {Row(<<1>>, <<10>>, <<20>>, "2024-01-01T00:02:00"),
     Row(<<1>>, <<11>>, <<20>>, "2024-01-01T00:01:00"),
     Row(<<1>>, <<12>>, <<21>>, "not a date"),
     Row(<<2>>, <<90>>, <<180>>, "2024-01-01T00:03:00"),
     Row(<<2>>, <<-90>>, <<-180>>, ""),
     Row(<<2>>, <<91>>, <<0>>, "2024-01-01T00:01:00"),
     Row(<<2>>, <<-91>>, <<0>>, "2024-01-01T00:02:00"),
     Row(<<1>>, <<0>>, <<-181>>, "2024-01-01T00:01:00"),
     Row(<<1>>, <<0>>, <<181>>, "2024-01-01T00:03:00"),
     Row(NaN, <<0>>, <<0>>, "2024-01-01T00:01:00"),
     Row(<<2>>, NaN, <<0>>, "2024-01-01T00:02:00"),
     Row(<<1>>, <<5>>, NaN, "2024-01-01T00:03:00")}

\* df.dropna(subset=['LAT', 'LON', 'MMSI'])
HasIdAndPosition(row) == row.MMSI # NaN /\ row.LAT # NaN /\ row.LON # NaN

\* The range filter with the bounds left out.
InRangeExclusive(row) ==
    /\ row.LAT[1] > -90 /\ row.LAT[1] < 90
    /\ row.LON[1] > -180 /\ row.LON[1] < 180

\* (df['LAT'] >= -90) & (df['LAT'] <= 90) & (df['LON'] >= -180) & (df['LON'] <= 180)
InRange(row) ==
    /\ row.LAT[1] >= -90 /\ row.LAT[1] <= 90
    /\ row.LON[1] >= -180 /\ row.LON[1] <= 180

\* Lines 37-54 of load_ais_data on the rows read: the timestamps are parsed,
\* rows without identifier or position and rows out of range are dropped, and
\* reset_index keeps the row number of the file (from 0) in the column index.
Preprocess(rows) ==
    LET kept == Ascending({k \in 1..Len(rows) :
                              HasIdAndPosition(rows[k]) /\ InRange(rows[k])})
    IN [j \in 1..Len(kept) |->
           [index |-> kept[j] - 1,
            MMSI |-> rows[kept[j]].MMSI[1],
            LAT |-> rows[kept[j]].LAT[1],
            LON |-> rows[kept[j]].LON[1],
            BaseDateTime |-> ParseTime(rows[kept[j]].BaseDateTime)]]

\* gdf.groupby('MMSI'): the positions in df of the rows of vessel v.
GroupRows(df, v) == {k \in 1..Len(df) : df[k].MMSI = v}

\* group.sort_values(by='index'): the rows of the group by their index column.
RECURSIVE SortByIndex(_, _)
SortByIndex(df, group) ==
    IF group = {} THEN << >>
    ELSE LET first == CHOOSE k \in group : \A j \in group : df[k].index <= df[j].index
         IN <<first>> \o SortByIndex(df, group \ {first})

\* LineString(group['geometry'].tolist()), the points being Point(LON, LAT).
LineString(df, order) == [j \in 1..Len(order) |-> <<df[order[j]].LON, df[order[j]].LAT>>]

\* The test of the group length with the minimum itself left out.
EmitsGroupAbove(length, minimum) == length > minimum

\* if len(group) >= min_points
EmitsGroup(length, minimum) == length >= minimum

\* create_trajectories(df, min_points) on rows: one LineString per group that
\* passes the length test.  LineString raises for a single point, and the
\* except clause around the whole loop then returns {}.
create_trajectories_rows(df, minimum) ==
    LET emitted == {v \in {df[k].MMSI : k \in 1..Len(df)} :
                       EmitsGroup(Cardinality(GroupRows(df, v)), minimum)}
    IN IF \E v \in emitted : Cardinality(GroupRows(df, v)) < 2
       THEN << >>
       ELSE [v \in emitted |-> LineString(df, SortByIndex(df, GroupRows(df, v)))]

\* The values of min_points a caller gives.
GivenMinPoints == {1, 2, 3, MinPoints}

\* The CSV file was read and has the required columns.
InitLoad ==
    /\ pc = "preprocess"
    /\ csv = NoFile
    /\ thresholds = THRESHOLDS
    /\ rounds = 0
    /\ PipelineStart
    /\ ProxIdle
    /\ now = 0
    /\ run_pc = << >>
    /\ run_info = << >>
    /\ run_files = << >>
    /\ ProjectIdle
    /\ StreamIdle
    /\ raw_rows \in UNION {[1..n -> RowPool] : n \in 1..MaxRows}
    /\ min_points_arg = << >>
    /\ df_rows = << >>
    /\ trajectories = << >>

pipelineData ==
    <<csv, candidate_df, vessel_trajectories, todo, thresholds, mmsi, metrics,
      classification, plot_dir, counts, pattern_mmsis, pattern_info, printed,
      plot_files, vlm_calls, output_files, error_log, rounds>>

loadVars == <<raw_rows, min_points_arg, df_rows, trajectories>>
projectVars == <<centroid, target_crs, projected_line>>
streamVars == <<fin, reader, fout, prev>>

\* df = pd.read_csv(...) was done; the rest of load_ais_data.
PreprocessRows ==
    /\ pc = "preprocess"
    /\ df_rows' = Preprocess(raw_rows)
    /\ pc' = "create rows"
    /\ UNCHANGED <<pipelineData, proxVars, runVars, projectVars, streamVars, raw_rows,
                   min_points_arg, trajectories>>

\* create_trajectories(df) or create_trajectories(df, min_points=n); an empty
\* df returns {} at once.
CreateTrajectoriesRows ==
    /\ pc = "create rows"
    /\ \E arg \in {<< >>} \cup {<<n>> : n \in GivenMinPoints} :
          /\ min_points_arg' = arg
          /\ trajectories' =
                 IF df_rows = << >> THEN << >>
                 ELSE create_trajectories_rows(
                          df_rows, IF arg = << >> THEN MinPointsDefault ELSE arg[1])
    /\ pc' = "created rows"
    /\ UNCHANGED <<pipelineData, proxVars, runVars, projectVars, streamVars, raw_rows, df_rows>>

NextLoad ==
    \/ PreprocessRows
    \/ CreateTrajectoriesRows

SpecLoad == InitLoad /\ [][NextLoad]_vars


\* ------------------------------------------- the projection of a trajectory

\* int(x) of Python for x = num / den: the quotient cut towards zero.
IntOf(num, den) == IF num >= 0 THEN num \div den ELSE -((-num) \div den)

\* int((lon + 180) / 6) + 1, lon in tenths of a degree.
UtmZone(lon) == IntOf(lon + 1800, 60) + 1

\* The dict estimate_utm_crs hands to CRS.from_dict, lat and lon in tenths of
\* a degree.
UtmParams(lat, lon) == [proj |-> "utm", zone |-> UtmZone(lon), south |-> lat < 0]

\* target_crs = 'EPSG:3857', the value target_crs keeps when estimate_utm_crs
\* raises.
WebMercator == [proj |-> "EPSG:3857", zone |-> 0, south |-> FALSE]

\* CRS.from_dict raises CRSError for a zone that is none of the 60 UTM zones.
FromDictRaises(params) == params.zone \notin 1..60

\* try: target_crs = estimate_utm_crs(centroid.y, centroid.x)
\* except Exception: pass
ChooseCrs(lat, lon) ==
    IF FromDictRaises(UtmParams(lat, lon)) THEN WebMercator ELSE UtmParams(lat, lon)

\* The length of a short line in the projection over its length on the
\* ground, in ten-thousandths.  UTM: 0.9996 on the central meridian of the
\* zone, rising to 1.0010 three degrees off it.  EPSG:3857: 1 / cos(lat).
ScaleOf(crs, lat, lon) ==
    IF crs.proj = "utm"
    THEN LET off == Abs(((lon + 1800) % 60) - 30)
         IN 9996 + (14 * off * off) \div 900
    ELSE CASE Abs(lat) <= 1 -> 10000
           [] Abs(lat) = 80 -> 10098
           [] Abs(lat) = 300 -> 11547
           [] Abs(lat) = 600 -> 20000

\* gs.to_crs(target_crs).iloc[0] on a short line whose points are given in
\* metres on the ground: every distance grows by the scale of the projection.
ToCrs(coords, scale) ==
    [k \in 1..Len(coords) |->
        <<(coords[k][1] * scale) \div 10000, (coords[k][2] * scale) \div 10000>>]

\* Centroids on the equator, at 8, 30 and 60 degrees of latitude, and just
\* south of the equator.
LatGrid == {-600, -80, -1, 0, 1, 80, 300, 600}

\* Centroids on, next to and between the borders of the first, the middle and
\* the last zones, up to the antimeridian.
LonGrid ==
    {lon \in {-1800 + 60 * z + e : z \in {0, 1, 29, 30, 59, 60}, e \in {-1, 0, 1, 30}} :
        lon >= -1800 /\ lon <= 1800}

\* A trajectory of five or more points with its centroid; the points are held
\* in metres on the ground.
InitProject ==
    /\ pc = "estimate"
    /\ csv = NoFile
    /\ thresholds = THRESHOLDS
    /\ rounds = 0
    /\ PipelineStart
    /\ now = 0
    /\ run_pc = << >>
    /\ run_info = << >>
    /\ run_files = << >>
    /\ LoadIdle
    /\ StreamIdle
    /\ centroid \in LatGrid \X LonGrid
    /\ target_crs = [proj |-> "none", zone |-> 0, south |-> FALSE]
    /\ projected_line = << >>
    /\ trajectory \in {StraightTrack, MowingTrack, ClusterTrack}
    /\ proximity_threshold = DefaultProximity
    /\ hit_count = -1

\* Lines 106-109 (and 259-263): centroid, target_crs = 'EPSG:3857', and the
\* guarded call of estimate_utm_crs.
EstimateCrs ==
    /\ pc = "estimate"
    /\ target_crs' = ChooseCrs(centroid[1], centroid[2])
    /\ pc' = "to_crs"
    /\ UNCHANGED <<pipelineData, proxVars, runVars, loadVars, streamVars, centroid,
                   projected_line>>

\* Lines 110-124 (and 264-268): gs.to_crs(target_crs) returns the projected
\* line, raises, or returns an empty geometry; there is no second attempt with
\* another CRS.  count_self_proximity_hits returns 0 in the last two cases.
ProjectLine ==
    /\ pc = "to_crs"
    /\ \E projection \in ProjectionOutcomes :
          LET coords == ToCrs(trajectory, ScaleOf(target_crs, centroid[1], centroid[2]))
          IN /\ projected_line' = IF projection = "ok" THEN coords ELSE << >>
             /\ hit_count' = count_self_proximity_hits(coords, proximity_threshold, projection)
             /\ pc' = CASE projection = "ok" -> "projected"
                        [] projection = "raise" -> "project failed"
                        [] projection = "empty" -> "project empty"
    /\ UNCHANGED <<pipelineData, runVars, loadVars, streamVars, centroid, target_crs,
                   trajectory, proximity_threshold>>

NextProject ==
    \/ EstimateCrs
    \/ ProjectLine

SpecProject == InitProject /\ [][NextProject]_vars

\* ------------------------------------------------------------- stream_flag

\* The largest number of rows of an input CSV.
MaxStreamRows == 3

\* SOG_MAX = 30.0, in knots.
SOG_MAX == 30

\* OFFLINE_THRESHOLD = timedelta(hours=1), in minutes.
OFFLINE_THRESHOLD == 60

\* ALLOW_START = 23.5, as the minute of the day.
ALLOW_START == 1410

\* ALLOW_END = 0.5, as the minute of the day.
ALLOW_END == 30

\* FREQ_THRESHOLD = timedelta(minutes=10), in minutes.
FREQ_THRESHOLD == 10

\* HEADING_JUMP = 45.0, in degrees.
HEADING_JUMP == 45

\* DISTANCE_KM = 10.0, in metres.
DISTANCE_KM == 10000

\* datetime.fromisoformat(cell): the minutes since 2024-01-01T00:00, or
\* nothing where it raises ValueError.
fromisoformat(cell) ==
    CASE cell = "2024-01-01T12:00:00" -> <<720>>
      [] cell = "2024-01-01T12:05:00" -> <<725>>
      [] cell = "2024-01-01T12:11:00" -> <<731>>
      [] cell = "2024-01-01T13:01:00" -> <<781>>
      [] cell = "2024-01-01T23:40:00" -> <<1420>>
      [] cell = "2024-01-02T00:45:00" -> <<1485>>
      [] OTHER -> << >>

\* float(cell) if cell else 0.0, for the SOG and COG cells.  A numeric cell is
\* <<v>>, an empty one << >>.
FloatOrZero(cell) == IF cell = << >> THEN 0 ELSE cell[1]

\* haversine(lat1, lon1, lat2, lon2) in metres, for two points on one
\* meridian or on the equator, positions in hundredths of a degree: 1112 m for
\* each hundredth of a degree of the great circle.
haversine(lat1, lon1, lat2, lon2) == 1112 * (Abs(lat2 - lat1) + Abs(lon2 - lon1))

\* (hour_min >= ALLOW_START) or (hour_min <= ALLOW_END)
in_midnight_allow(hour_min) == hour_min >= ALLOW_START \/ hour_min <= ALLOW_END

\* h0 = t0.hour + t0.minute/60, as the minute of the day.
HourMin(t0) == t0 % 1440

\* One row of the input CSV as csv.DictReader yields it.
StreamRow(m, time, lat, lon, sog, cog) ==
    [MMSI |-> m, BaseDateTime |-> time, LAT |-> lat, LON |-> lon, SOG |-> sog, COG |-> cog]

\* Rows of two vessels: gaps below and above ten minutes and one hour, a gap
\* of more than an hour that starts in the midnight window, moves of 8.9 km
\* and 10.008 km, headings 45 and 46 degrees apart, speeds of 30 and 31 knots,
\* empty SOG and COG cells, and two rows that do not parse.
StreamPool ==
    {StreamRow("A", "2024-01-01T12:00:00", <<0>>, <<0>>, << >>, << >>),
     StreamRow("A", "2024-01-01T12:05:00", <<0>>, <<0>>, <<10>>, <<30>>),
     StreamRow("A", "2024-01-01T12:11:00", <<8>>, <<0>>, <<31>>, <<46>>),
     StreamRow("A", "2024-01-01T13:01:00", <<9>>, <<0>>, <<12>>, <<45>>),
     StreamRow("A", "2024-01-01T23:40:00", <<0>>, <<0>>, <<12>>, <<0>>),
     StreamRow("A", "2024-01-02T00:45:00", <<0>>, <<0>>, <<12>>, <<0>>),
     StreamRow("B", "2024-01-01T12:00:00", <<0>>, <<9>>, <<30>>, <<90>>),
     StreamRow("B", "2024-01-01T13:01:00", <<0>>, <<9>>, <<5>>, <<0>>),
     StreamRow("A", "", <<0>>, <<0>>, <<12>>, <<0>>),
     StreamRow("B", "2024-01-01T12:05:00", << >>, <<9>>, <<5>>, <<90>>)}

\* The row makes datetime.fromisoformat or float raise ValueError.
RowRaises(row) ==
    \/ fromisoformat(row.BaseDateTime) = << >>
    \/ row.LAT = << >>
    \/ row.LON = << >>

\* (t, lat, lon, cog) of a row that parses.
Parsed(row) ==
    [t |-> fromisoformat(row.BaseDateTime)[1], lat |-> row.LAT[1], lon |-> row.LON[1],
     cog |-> FloatOrZero(row.COG)]

\* str(int(f))
StrInt(f) == IF f THEN "1" ELSE "0"

\* Lines 58-96: the flags of a row, given the prev dict.
Flags(row, seen) ==
    LET m == row.MMSI
        cur == Parsed(row)
        known == m \in DOMAIN seen
        f_speed == FloatOrZero(row.SOG) > SOG_MAX
        f_off == /\ known
                 /\ cur.t - seen[m].t > OFFLINE_THRESHOLD
                 /\ ~in_midnight_allow(HourMin(seen[m].t))
        f_freq == known /\ cur.t - seen[m].t > FREQ_THRESHOLD
        f_head == known /\ Abs(cur.cog - seen[m].cog) > HEADING_JUMP
        f_dist == /\ known
                  /\ haversine(seen[m].lat, seen[m].lon, cur.lat, cur.lon) > DISTANCE_KM
    IN [flag_speed |-> StrInt(f_speed), flag_offline |-> StrInt(f_off),
        flag_low_freq |-> StrInt(f_freq), flag_heading |-> StrInt(f_head),
        flag_distance |-> StrInt(f_dist),
        flag_any |-> StrInt(f_speed \/ f_off \/ f_freq \/ f_head \/ f_dist)]

\* Mutant: the entry of a vessel is set once and never replaced.
UpdatePrevOnce(seen, m, entry) ==
    [x \in DOMAIN seen \cup {m} |-> IF x \in DOMAIN seen THEN seen[x] ELSE entry]

\* prev[m] = (t, lat, lon, cog)
UpdatePrev(seen, m, entry) ==
    [x \in DOMAIN seen \cup {m} |-> IF x = m THEN entry ELSE seen[x]]

\* An input CSV of one to MaxStreamRows rows, opened; prev = {}.
InitStream ==
    /\ pc = "stream"
    /\ csv = NoFile
    /\ thresholds = THRESHOLDS
    /\ rounds = 0
    /\ PipelineStart
    /\ ProxIdle
    /\ now = 0
    /\ run_pc = << >>
    /\ run_info = << >>
    /\ run_files = << >>
    /\ LoadIdle
    /\ ProjectIdle
    /\ fin \in UNION {[1..n -> StreamPool] : n \in 1..MaxStreamRows}
    /\ reader = 0
    /\ fout = << >>
    /\ prev = << >>

\* One iteration of `for row in reader`: the row is parsed, flagged against
\* prev[m] and written, and prev[m] is replaced; a row that does not parse
\* raises out of stream_flag before anything is written for it.
FlagRow ==
    /\ pc = "stream"
    /\ reader < Len(fin)
    /\ reader' = reader + 1
    /\ LET row == fin[reader + 1]
       IN IF RowRaises(row)
          THEN /\ pc' = "stream raised"
               /\ UNCHANGED <<fout, prev>>
          ELSE /\ fout' = Append(fout, [row |-> row, flags |-> Flags(row, prev)])
               /\ prev' = UpdatePrev(prev, row.MMSI, Parsed(row))
               /\ pc' = "stream"
    /\ UNCHANGED <<pipelineData, proxVars, runVars, loadVars, projectVars, fin>>

\* The reader is exhausted: print(f"Done -> wrote {output_path}").
StreamDone ==
    /\ pc = "stream"
    /\ reader = Len(fin)
    /\ pc' = "stream done"
    /\ UNCHANGED <<pipelineData, proxVars, runVars, loadVars, projectVars, streamVars>>

NextStream ==
    \/ FlagRow
    \/ StreamDone

SpecStream == InitStream /\ [][NextStream]_vars

\* ------------------------------------------------------------------- claims

\* The four branches of the classifier as the specification lists them, in
\* their order, the first match winning.
FirstMatch(m, t) ==
    IF /\ ~IsNa(m.avg_sog)
       /\ m.avg_sog[1] < t.speed
       /\ m.bbox_width_m < t.size
       /\ m.bbox_height_m < t.size
       /\ m.proximity_hits > t.hits
    THEN LikelyJitter
    ELSE IF /\ IsNa(m.avg_sog)
            /\ m.bbox_width_m < t.size
            /\ m.bbox_height_m < t.size
            /\ m.proximity_hits > t.hits
    THEN LikelyJitterNoSog
    ELSE IF m.proximity_hits > 0 THEN PotentialPattern
    ELSE NoSignificantProximity

\* C1: whatever was classified and counted before, the classification that
\* process_trajectories assigns and prints for the current Metrics is the
\* result of the four branches taken in order, first match wins, and it is one
\* of the four classifications.
C1_ClassificationIsFirstMatch ==
    pc = "plot" =>
        /\ classification = FirstMatch(metrics, thresholds)
        /\ classification \in Classifications
        /\ printed[mmsi] = classification

\* A second vessel without speed data is classified as jitter after a first
\* vessel was counted as a potential pattern.
C1_Witness ==
    /\ pc = "plot"
    /\ rounds = 2
    /\ counts.pattern_vlm = 1
    /\ classification = LikelyJitterNoSog

\* A Metrics value that sits exactly on one of the thresholds.
OnAThreshold(m, t) ==
    \/ ~IsNa(m.avg_sog) /\ m.avg_sog[1] = t.speed
    \/ m.bbox_width_m = t.size
    \/ m.bbox_height_m = t.size
    \/ m.proximity_hits = t.hits

\* C2: Metrics with avg_sog equal to the speed threshold, a box side equal to
\* the size threshold or a hit count equal to the hits threshold are never
\* classified as jitter (with or without speed data), and a hit count of 0 is
\* never a potential pattern.
C2_ThresholdsAreStrict ==
    pc = "plot" =>
        /\ OnAThreshold(metrics, thresholds) =>
               classification \notin {LikelyJitter, LikelyJitterNoSog}
        /\ metrics.proximity_hits = 0 => classification # PotentialPattern

\* avg_sog is exactly the speed threshold while every other condition of the
\* jitter branch holds.
C2_Witness ==
    /\ pc = "plot"
    /\ metrics.avg_sog = <<thresholds.speed>>
    /\ metrics.bbox_width_m < thresholds.size
    /\ metrics.bbox_height_m < thresholds.size
    /\ metrics.proximity_hits > thresholds.hits
    /\ classification = PotentialPattern

\* W = max(2, floor(0.1 * N)) as the specification states it.
WindowOf(n) == IF n \div 10 > 2 THEN n \div 10 ELSE 2

\* The index pairs the specification counts: j > i, more than W apart, and
\* strictly closer than the threshold.
ProximatePairs(coords, threshold) ==
    {p \in (1..Len(coords)) \X (1..Len(coords)) :
        /\ p[2] > p[1]
        /\ p[2] - p[1] > WindowOf(Len(coords))
        /\ Dist2(coords[p[1]], coords[p[2]]) < threshold * threshold}

\* C3: for a projected trajectory of at least 5 points, the count returned is
\* the number of index pairs (i, j) with j > i, j - i > W and distance strictly
\* below the threshold, W = max(2, floor(0.1 * N)); for 20 points W is 2.
C3_HitsArePairsBeyondWindow ==
    (pc = "counted" /\ Len(trajectory) >= 5) =>
        /\ hit_count = Cardinality(ProximatePairs(trajectory, proximity_threshold))
        /\ Len(trajectory) = 20 => AdjacencyWindow(Len(trajectory)) = 2

\* A track of 30 points (W = 3) with hits, and with a pair exactly 3 apart that
\* is closer than the threshold and is left out.
C3_Witness ==
    /\ pc = "counted"
    /\ Len(trajectory) = 30
    /\ hit_count > 0
    /\ \E i \in 1..27 :
          Dist2(trajectory[i], trajectory[i + 3]) < proximity_threshold * proximity_threshold

\* The vessels whose group in the input table has fewer than 5 fixes.
ShortVessels == {v \in DOMAIN candidate_df : Len(Tracks[candidate_df[v].track]) < 5}

\* Every track of fewer than 5 fixes on the grid has no hits, at any threshold
\* and whatever the projection does.
ShortTracksHaveNoHits ==
    \A t \in UNION {[1..n -> GridPoints] : n \in 0..4} :
        \A threshold \in ProxThresholds, projection \in ProjectionOutcomes :
            count_self_proximity_hits(t, threshold, projection) = 0

\* C4: a vessel with fewer than 5 fixes has 0 proximity hits and never appears
\* in an output of the run: it is not classified, no counter counts it, it has
\* no image, no call of the verifier and no row in pattern_info or in a result
\* file.
C4_ShortVesselsNeverAppear ==
    /\ ShortTracksHaveNoHits
    /\ \A v \in ShortVessels :
          /\ count_self_proximity_hits(Tracks[candidate_df[v].track], DefaultProximity, "ok") = 0
          /\ v # mmsi
          /\ v \notin DOMAIN printed
          /\ \A d \in PlotDirs : v \notin plot_files[d]
          /\ \A k \in 1..Len(vlm_calls) : vlm_calls[k] # v
          /\ \A k \in 1..Len(pattern_mmsis) : pattern_mmsis[k] # v
          /\ \A k \in 1..Len(pattern_info) : pattern_info[k].mmsi # v
          /\ \A f \in output_files : \A k \in 1..Len(f.rows) : f.rows[k].mmsi # v
    /\ counts.processed + Cardinality(ShortVessels) <= Cardinality(DOMAIN candidate_df)
    /\ counts.jitter + counts.pattern_vlm + counts.no_prox + Cardinality(ShortVessels)
           <= Cardinality(DOMAIN candidate_df)
    /\ counts.plotted + Cardinality(ShortVessels) <= Cardinality(DOMAIN candidate_df)

\* The run has finished with result files written, and a vessel of the table
\* had fewer than 5 fixes.
C4_Witness ==
    /\ pc = "done"
    /\ ShortVessels # {}
    /\ output_files # {}
    /\ counts.processed = 1

\* The group of scenario A: six fixes back and forth in a 100 m x 100 m box at
\* 0.5 kn.
ScenarioA == [track |-> "boxed", sog |-> <<5>>]

\* The group of scenario B: the mowing pattern of fifty fixes at 8 kn.
ScenarioB == [track |-> "mowing", sog |-> <<80>>]

\* The vessels the loop has classified.
Classified == DOMAIN printed

\* The iteration of vessel v is past the plot and the call of the verifier.
Settled(v) == v # mmsi \/ pc \in {"copy", "end", "loop", "save", "done"}

\* The number of calls of the verifier made for vessel v.
CallCount(v) == Cardinality({k \in 1..Len(vlm_calls) : vlm_calls[k] = v})

\* The number of records of pattern_info for vessel v.
RowCount(v) == Cardinality({k \in 1..Len(pattern_info) : pattern_info[k].mmsi = v})

\* C5 as stated: the vessel of scenario A is classified LikelyJitter.
C5_ScenarioAIsJitter ==
    \A v \in Classified : candidate_df[v] = ScenarioA => printed[v] = LikelyJitter

\* Six fixes going back and forth between any two positions of the box have
\* exactly the 6 pairs more than 2 apart as hits, all closer than 200 m.
BoxedTracksHaveSixHits ==
    \A a \in BoxPositions, b \in BoxPositions :
        count_self_proximity_hits(BackAndForth(a, b), DefaultProximity, "ok") = 6

\* C5 amended: the vessel of scenario A has 6 proximity hits, which is not
\* above the hits threshold of 50, and is classified PotentialPattern.
C5_ScenarioAIsPotentialPattern ==
    /\ BoxedTracksHaveSixHits
    /\ \A v \in Classified :
          candidate_df[v] = ScenarioA =>
              /\ printed[v] = PotentialPattern
              /\ v = mmsi => metrics.proximity_hits = 6 /\ metrics.proximity_hits <= thresholds.hits

\* The vessel of scenario A has been classified.
C5_Witness ==
    /\ pc = "plot"
    /\ candidate_df[mmsi] = ScenarioA
    /\ mmsi \in Classified
    /\ metrics.avg_sog = <<5>>
    /\ thresholds = THRESHOLDS

\* C6 as stated: the vessel of scenario B has hits, is classified
\* PotentialPattern and is forwarded to the verifier.
C6_ScenarioBIsForwarded ==
    \A v \in Classified :
        (candidate_df[v] = ScenarioB /\ Settled(v)) =>
            /\ GroupMetrics[ScenarioB].proximity_hits > 0
            /\ printed[v] = PotentialPattern
            /\ CallCount(v) >= 1

\* C6 amended: the vessel of scenario B has hits (with W = 5), is classified
\* PotentialPattern and is forwarded to the verifier exactly when its image was
\* rendered.
C6_ScenarioBIsForwardedWhenPlotted ==
    \A v \in Classified :
        (candidate_df[v] = ScenarioB /\ Settled(v)) =>
            /\ AdjacencyWindow(Len(MowingTrack)) = 5
            /\ GroupMetrics[ScenarioB].proximity_hits > 0
            /\ printed[v] = PotentialPattern
            /\ CallCount(v) >= 1 <=> v \in plot_files["pattern"]

\* The vessel of scenario B was plotted and sent to the verifier.
C6_Witness ==
    /\ pc = "done"
    /\ \E v \in Classified :
          /\ candidate_df[v] = ScenarioB
          /\ CallCount(v) = 1
          /\ RowCount(v) = 1

\* C7: the verifier is called, and a record is appended, only for a vessel
\* classified PotentialPattern in this run; a vessel with another
\* classification, or one whose iteration failed before the classification,
\* has no call and no record.
C7_OnlyPotentialPatternsAreVerified ==
    /\ \A k \in 1..Len(vlm_calls) :
          vlm_calls[k] \in Classified /\ printed[vlm_calls[k]] = PotentialPattern
    /\ \A k \in 1..Len(pattern_info) :
          /\ pattern_info[k].mmsi \in Classified
          /\ printed[pattern_info[k].mmsi] = PotentialPattern
    /\ \A v \in Vessels :
          (v \notin Classified \/ printed[v] # PotentialPattern) =>
              CallCount(v) = 0 /\ RowCount(v) = 0

\* One vessel was plotted as jitter, another was sent to the verifier.
C7_Witness ==
    /\ pc = "done"
    /\ plot_files["jitter"] # {}
    /\ Len(vlm_calls) = 1
    /\ counts.processed = 2

\* C8 as stated: at the end of the run every vessel classified
\* PotentialPattern has exactly one call of the service.
C8_ExactlyOneCallPerCandidate ==
    pc = "done" =>
        \A v \in Classified : printed[v] = PotentialPattern => CallCount(v) = 1

\* C8 amended: no vessel has more than one call, whatever the call returned;
\* a vessel classified PotentialPattern has exactly one call if its image was
\* rendered and none if it was not, and one record per call.
C8_AtMostOneCallPerCandidate ==
    \A v \in Vessels :
        /\ CallCount(v) <= 1
        /\ RowCount(v) = CallCount(v)
        /\ (v \in Classified /\ printed[v] = PotentialPattern /\ Settled(v)) =>
               (CallCount(v) = 1 <=> v \in plot_files["pattern"])

\* The run has finished after a call that raised and a reply that was no JSON.
C8_Witness ==
    /\ pc = "done"
    /\ \E k \in 1..Len(pattern_info) :
          pattern_info[k].vlm_raw_result = "ERROR: Request timed out."
    /\ \E k \in 1..Len(pattern_info) : pattern_info[k].vlm_raw_result = ReplyProse
    /\ Len(vlm_calls) = 2

\* C9: the record of a candidate whose service call raised has a
\* survey_classification that marks a service error, distinct from the
\* parsing error.
C9_ServiceFailureIsServiceError ==
    \A k \in 1..Len(pattern_info) :
        pattern_info[k].vlm_raw_result = "ERROR: Request timed out." =>
            /\ pattern_info[k].survey_classification # "PARSING_ERROR"
            /\ pattern_info[k].survey_classification \in {"SERVICE_ERROR", "ERROR"}

\* The three survey labels the service is asked for.
SurveyLabels ==
    {"LIKELY_SURVEY_PATTERN", "POSSIBLE_SURVEY_PATTERN", "UNLIKELY_SURVEY_PATTERN"}

\* A response that does not have the expected shape: no JSON, JSON that is no
\* object, an object without classification, or a classification outside the
\* three labels.
Malformed(text) ==
    LET value == JsonLoads(text)
    IN \/ value.kind # "object"
       \/ "classification" \notin DOMAIN value.fields
       \/ value.fields["classification"] \notin SurveyLabels

\* C10: the record of every candidate whose response is malformed has the
\* survey_classification PARSING_ERROR, with the response text kept in it.
C10_MalformedIsParsingError ==
    \A k \in 1..Len(pattern_info) :
        Malformed(pattern_info[k].vlm_raw_result) =>
            /\ pattern_info[k].survey_classification = "PARSING_ERROR"
            /\ pattern_info[k].vlm_raw_result \in VlmResults

\* The five values of survey_classification the specification names: the three
\* labels, the parsing error and the service error (under either spelling).
SurveyClassifications == SurveyLabels \cup {"PARSING_ERROR", "SERVICE_ERROR", "ERROR"}

\* C11: whatever the service returned, the survey_classification of every
\* record of pattern_info, and of every row written to a result file, is one of
\* the five values.
C11_SurveyClassificationIsOneOfFive ==
    /\ \A k \in 1..Len(pattern_info) :
          pattern_info[k].survey_classification \in SurveyClassifications
    /\ \A f \in output_files : \A k \in 1..Len(f.rows) :
          f.rows[k].survey_classification \in SurveyClassifications

\* The statements of the loop of process_trajectories.
LoopStates == {"loop", "metrics", "classify", "plot", "verify", "copy", "end"}

\* The vessels the loop has taken from trajectories.items() so far.
Visited ==
    {vessel_trajectories[k] : k \in 1..(Len(vessel_trajectories) - Len(todo))}

\* The vessels whose iteration is over.
Finished == {v \in Visited : v # mmsi \/ pc \in {"loop", "save", "done"}}

\* The vessels with a failure at some stage of their iteration.
Failed == {e.mmsi : e \in error_log} \ {0}

\* The number of classified vessels with one of the classifications cs.
NumClassified(cs) == Cardinality({v \in Classified : printed[v] \in cs})

\* The records of pattern_info for vessel v.
RecordsOf(v) == {k \in 1..Len(pattern_info) : pattern_info[k].mmsi = v}

\* Vessel v went through every stage that applies to it: it is classified from
\* its own fixes, its image is in the directory of its classification, and as
\* a potential pattern it has one call and one record, with its image copied
\* to the directory of its survey classification.
FullyProcessed(v) ==
    /\ v \in Classified
    /\ v \in plot_files[PlotDirOf(printed[v])]
    /\ printed[v] = PotentialPattern =>
          /\ CallCount(v) = 1
          /\ RowCount(v) = 1
          /\ \A k \in RecordsOf(v) :
                LET dir == SurveyDirOf(pattern_info[k].survey_classification)
                IN dir # None => v \in plot_files[dir]

\* C12: a failure in the iteration of one vessel stays in that iteration. The
\* loop is left only when no vessel remains; every vessel without a failure of
\* its own is fully processed, whatever failed for the others; and what each
\* vessel contributes (its classification, its counter, its record) is computed
\* from its own fixes alone.
C12_FailuresAreIsolated ==
    /\ todo # << >> => pc \in LoopStates
    /\ pc \in {"save", "done"} => Visited = Finished
    /\ \A v \in Finished \ Failed : FullyProcessed(v)
    /\ \A v \in Classified :
          printed[v] = Classify(GroupMetrics[candidate_df[v]], THRESHOLDS)
    /\ \A k \in 1..Len(pattern_info) :
          LET info == pattern_info[k]
          IN info = PatternRecord(info.mmsi, GroupMetrics[candidate_df[info.mmsi]],
                                  info.survey_classification, info.vlm_raw_result)
    /\ counts.jitter = NumClassified({LikelyJitter, LikelyJitterNoSog})
    /\ counts.pattern_vlm = NumClassified({PotentialPattern})
    /\ counts.no_prox = NumClassified({NoSignificantProximity})
    /\ counts.processed =
           Cardinality({v \in Finished : ProjectError(v) \notin error_log})

\* The iteration of the first vessel raised before its classification, and the
\* second vessel went through every stage, up to the copy of its image.
C12_Witness ==
    /\ pc = "done"
    /\ \E v \in Failed, w \in Finished \ Failed :
          /\ v < w
          /\ LoopError(v) \in error_log
          /\ v \notin Classified
          /\ RowCount(w) = 1
          /\ w \in plot_files["likely_survey"]

\* The rows about vessel v in the full result tables of the output directory.
FullRowsOf(v) ==
    {row \in UNION {{f.rows[k] : k \in 1..Len(f.rows)} :
                        f \in {g \in output_files : g.name[1] = "vlm_analysis_full"}} :
        row.mmsi = v}

\* A row that shows a failure: a survey_classification that is no survey label.
ShowsFailure(row) == row.survey_classification \notin SurveyLabels

\* The vessels whose service call failed or whose response was malformed.
ServiceFailed ==
    {pattern_info[k].mmsi :
        k \in {j \in 1..Len(pattern_info) : Malformed(pattern_info[j].vlm_raw_result)}}

\* C13: at the end of the run, every vessel with a failure that did not end the
\* run (an error in its iteration, a failed service call, a malformed response)
\* has a row in the persisted full result table, and the row shows the failure.
C13_FailuresAreInFullTable ==
    pc = "done" =>
        \A v \in Failed \cup ServiceFailed :
            \E row \in FullRowsOf(v) : ShowsFailure(row)

\* C14: a failure while writing either result file is fatal: after it,
\* save_vlm_results does not return normally and the run does not reach its
\* normal completion.
C14_WriteFailureIsFatal == SaveError \in error_log => pc # "done"

\* C15: when the input file is missing or unreadable, or lacks one of the
\* columns MMSI, LAT and LON, load_ais_data returns the empty table and the run
\* ends at once: no vessel is iterated, classified or counted, the verifier is
\* not called, and no image and no result table is written.
C15_NoInputNoOutput ==
    ~(csv.readable /\ csv.has_columns) =>
        /\ pc \in {"load", "done"}
        /\ candidate_df = EmptyFrame
        /\ vessel_trajectories = << >>
        /\ mmsi = 0
        /\ Classified = {}
        /\ counts = ZeroCounts
        /\ vlm_calls = << >>
        /\ pattern_info = << >>
        /\ \A d \in PlotDirs : plot_files[d] = {}
        /\ output_files = {}

\* The run is over for a file that holds the mowing pattern of a vessel but
\* lacks a required column.
C15_Witness ==
    /\ pc = "done"
    /\ csv.readable
    /\ ~csv.has_columns
    /\ \E v \in DOMAIN csv.groups : csv.groups[v] = ScenarioB

\* The iteration of vessel v is past the copy of its image.
CopySettled(v) == v # mmsi \/ pc \in {"end", "loop", "save", "done"}

\* The survey classifications recorded for vessel v.
SurveyOf(v) == {pattern_info[k].survey_classification : k \in RecordsOf(v)}

\* C16 as stated: the image of a candidate is in the likely-survey directory
\* exactly when its survey_classification is LIKELY_SURVEY_PATTERN, and in the
\* possible-survey directory exactly when it is POSSIBLE_SURVEY_PATTERN.
C16_CopiedExactlyWhenLabelled ==
    \A v \in Vessels :
        (RowCount(v) > 0 /\ CopySettled(v)) =>
            /\ v \in plot_files["likely_survey"]
                   <=> "LIKELY_SURVEY_PATTERN" \in SurveyOf(v)
            /\ v \in plot_files["possible_survey"]
                   <=> "POSSIBLE_SURVEY_PATTERN" \in SurveyOf(v)

\* C16 amended: an image is in the likely-survey (possible-survey) directory
\* exactly when the vessel's survey_classification is LIKELY_SURVEY_PATTERN
\* (POSSIBLE_SURVEY_PATTERN) and shutil.copy2 did not raise; for every other
\* value, and for every vessel that is no candidate, neither directory holds an
\* image of the vessel, and the counters count the copies made.
C16_CopiedWhenLabelledAndCopyWorked ==
    /\ \A v \in Vessels :
          (RowCount(v) > 0 /\ CopySettled(v)) =>
              /\ v \in plot_files["likely_survey"]
                     <=> /\ "LIKELY_SURVEY_PATTERN" \in SurveyOf(v)
                         /\ LoopError(v) \notin error_log
              /\ v \in plot_files["possible_survey"]
                     <=> /\ "POSSIBLE_SURVEY_PATTERN" \in SurveyOf(v)
                         /\ LoopError(v) \notin error_log
    /\ \A v \in Vessels :
          (\A sc \in SurveyOf(v) :
              sc \notin {"LIKELY_SURVEY_PATTERN", "POSSIBLE_SURVEY_PATTERN"}) =>
              v \notin plot_files["likely_survey"] \cup plot_files["possible_survey"]
    /\ counts.likely_survey = Cardinality(plot_files["likely_survey"])
    /\ counts.possible_survey = Cardinality(plot_files["possible_survey"])

\* One candidate was copied to the likely-survey directory and another, judged
\* unlikely, was copied nowhere.
C16_Witness ==
    /\ pc = "done"
    /\ \E v \in plot_files["likely_survey"], w \in Vessels :
          /\ "LIKELY_SURVEY_PATTERN" \in SurveyOf(v)
          /\ "UNLIKELY_SURVEY_PATTERN" \in SurveyOf(w)
          /\ w \notin plot_files["likely_survey"] \cup plot_files["possible_survey"]

\* The values survey_classification takes in the records of a run.
SurveyValues == SurveyLabels \cup {"PARSING_ERROR", "ERROR"}

\* The number of records of pattern_info with the survey classification sc.
NumRecords(sc) ==
    Cardinality({k \in 1..Len(pattern_info) : pattern_info[k].survey_classification = sc})

\* C17 as stated: at the end of the run the counts dict holds a counter of its
\* own for each of the four classifications, equal to the number of vessels
\* given it, and a counter of its own for each survey_classification value,
\* equal to the number of records with that value.
C17_OneCounterPerValue ==
    pc = "done" =>
        /\ \E f \in [Classifications -> DOMAIN counts] :
              /\ \A a \in Classifications, b \in Classifications : a # b => f[a] # f[b]
              /\ \A c \in Classifications : counts[f[c]] = NumClassified({c})
        /\ \E g \in [SurveyValues -> DOMAIN counts] :
              /\ \A a \in SurveyValues, b \in SurveyValues : a # b => g[a] # g[b]
              /\ \A sc \in SurveyValues : counts[g[sc]] = NumRecords(sc)

\* The vessels with a record of survey classification sc whose image was
\* copied.
CopiedAs(sc) ==
    {v \in Vessels : sc \in SurveyOf(v) /\ CopySettled(v) /\ LoopError(v) \notin error_log}

\* C17 amended: the counts dict has seven counters.  jitter counts the vessels
\* classified LikelyJitter or LikelyJitterNoSpeedData together, pattern_vlm and
\* no_prox count the vessels classified PotentialPattern and
\* NoSignificantProximity; likely_survey and possible_survey count the images
\* copied for records with these labels, never more than the records; the other
\* survey_classification values have no counter.
C17_CountersAsKept ==
    /\ DOMAIN counts = {"jitter", "pattern_vlm", "no_prox", "processed", "plotted",
                        "likely_survey", "possible_survey"}
    /\ counts.jitter = NumClassified({LikelyJitter}) + NumClassified({LikelyJitterNoSog})
    /\ counts.pattern_vlm = NumClassified({PotentialPattern})
    /\ counts.no_prox = NumClassified({NoSignificantProximity})
    /\ counts.likely_survey = Cardinality(CopiedAs("LIKELY_SURVEY_PATTERN"))
    /\ counts.likely_survey <= NumRecords("LIKELY_SURVEY_PATTERN")
    /\ counts.possible_survey = Cardinality(CopiedAs("POSSIBLE_SURVEY_PATTERN"))
    /\ counts.possible_survey <= NumRecords("POSSIBLE_SURVEY_PATTERN")

\* The run is over with one vessel in each of the two jitter classes, both
\* counted by the one jitter counter.
C17_Witness ==
    /\ pc = "done"
    /\ NumClassified({LikelyJitter}) = 1
    /\ NumClassified({LikelyJitterNoSog}) = 1
    /\ counts.jitter = 2

\* The summary tables and the full tables in the output directory.
SummaryTables == {f \in output_files : f.name[1] = "vlm_analysis_results"}
FullTables == {f \in output_files : f.name[1] = "vlm_analysis_full"}

\* The full table g holds the records of the summary table f in the same
\* order, each row being the summary row plus the raw text of the verifier.
SameRecords(f, g) ==
    /\ Len(g.rows) = Len(f.rows)
    /\ \A k \in 1..Len(f.rows) :
          /\ DOMAIN g.rows[k] = DOMAIN f.rows[k] \cup {"vlm_raw_result"}
          /\ "vlm_raw_result" \notin DOMAIN f.rows[k]
          /\ \A field \in DOMAIN f.rows[k] : g.rows[k][field] = f.rows[k][field]

C19_RunsNeverCollide ==
    \A r1 \in Runs, r2 \in Runs : r1 # r2 => run_files[r1] \cap run_files[r2] = {}

\* What the run has produced for vessel v so far.
Footprint(v) ==
    <<v \in Classified, {d \in PlotDirs : v \in plot_files[d]}, CallCount(v), RowCount(v),
      {e \in error_log : e.mmsi = v},
      Cardinality({k \in 1..Len(pattern_mmsis) : pattern_mmsis[k] = v})>>

\* The vessels of the input table that create_trajectories emits.
Emitted == {v \in DOMAIN candidate_df : Len(Tracks[candidate_df[v].track]) >= 5}

\* The order of the visit is the one strictly ascending sequence of the
\* emitted vessels, which the input alone determines.
VisitOrderIsAscending ==
    /\ \A j \in 1..Len(vessel_trajectories), k \in 1..Len(vessel_trajectories) :
          j < k => vessel_trajectories[j] < vessel_trajectories[k]
    /\ pc \notin {"load", "create"} =>
          {vessel_trajectories[k] : k \in 1..Len(vessel_trajectories)} = Emitted
    /\ \A k \in 1..Len(todo) :
          todo[k] = vessel_trajectories[Len(vessel_trajectories) - Len(todo) + k]

\* One step of the run: the loop variable only grows, and moves on only
\* between two iterations, to the smallest vessel left; whatever the step
\* produces is for the current vessel, so every step for a vessel comes before
\* every step for a larger one.
VisitStep ==
    /\ mmsi' >= mmsi
    /\ mmsi' # mmsi => pc = "loop" /\ mmsi' = Head(todo)
    /\ \A w \in {todo'[k] : k \in 1..Len(todo')} : w > mmsi'
    /\ \A v \in Vessels : Footprint(v)' # Footprint(v) => v = mmsi /\ v = mmsi'

\* C20: the vessels are processed one at a time in strictly ascending order of
\* MMSI: every step for a vessel is taken before any step for a larger one, and
\* the order is fixed by the input.
C20_OneVesselAtATimeAscending == [](VisitOrderIsAscending) /\ [][VisitStep]_vars

\* The run is over after two vessels were visited and classified, the second
\* one recorded as a candidate.
C20_Witness ==
    /\ pc = "done"
    /\ Len(vessel_trajectories) >= 2
    /\ vessel_trajectories[1] \in Classified
    /\ vessel_trajectories[2] \in Classified
    /\ RowCount(vessel_trajectories[2]) = 1
    /\ Failed # {}

\* The vessels of the loaded table and the number of rows of each.
LoadedVessels == {df_rows[k].MMSI : k \in 1..Len(df_rows)}
GroupSize(v) == Cardinality(GroupRows(df_rows, v))

\* The minimum in force as the specification states it: the one the caller
\* gave, or 5.
StatedMinimum == IF min_points_arg = << >> THEN 5 ELSE min_points_arg[1]

\* The minimum in force in the code: the one the caller gave, or 2.
CodeMinimum == IF min_points_arg = << >> THEN 2 ELSE min_points_arg[1]

\* C21 as stated: create_trajectories emits a trajectory for a vessel exactly
\* when its group has at least the minimum number of rows, the minimum being 5
\* when the caller gives none.
C21_EmittedIffAtLeastMinimumDefaultFive ==
    pc = "created rows" =>
        \A v \in LoadedVessels : v \in DOMAIN trajectories <=> GroupSize(v) >= StatedMinimum

\* C21 amended: the minimum is 2 when the caller gives none (the pipeline gives
\* 5).  For a minimum of at least 2 a vessel has a trajectory exactly when its
\* group has at least the minimum number of rows, the trajectory has one point
\* per row, and shorter groups are dropped without an error; for a minimum
\* below 2 a group of a single row makes the function return no trajectory at
\* all.
C21_EmittedIffAtLeastMinimumDefaultTwo ==
    pc = "created rows" =>
        /\ min_points_arg = << >> => CodeMinimum = MinPointsDefault
        /\ DOMAIN trajectories \subseteq LoadedVessels
        /\ \A v \in DOMAIN trajectories :
              Len(trajectories[v]) = GroupSize(v) /\ GroupSize(v) >= 2
        /\ CodeMinimum >= 2 =>
              \A v \in LoadedVessels :
                  v \in DOMAIN trajectories <=> GroupSize(v) >= CodeMinimum
        /\ (CodeMinimum < 2 /\ \E v \in LoadedVessels : GroupSize(v) = 1) =>
              trajectories = << >>

\* create_trajectories was called without min_points: a vessel with two rows
\* has a trajectory and a vessel with one row has none.
C21_Witness ==
    /\ pc = "created rows"
    /\ min_points_arg = << >>
    /\ \E v \in DOMAIN trajectories, w \in LoadedVessels :
          /\ GroupSize(v) = 2
          /\ GroupSize(w) = 1
          /\ w \notin DOMAIN trajectories

\* Every row of the group of vessel v has a timestamp that was parsed.
TimesPresent(v) == \A k \in GroupRows(df_rows, v) : df_rows[k].BaseDateTime # NaN

\* The point of row k of the loaded table.
PointOf(k) == <<df_rows[k].LON, df_rows[k].LAT>>

\* The sequence points holds the rows of vessel v, each once, with the values
\* of key(_) never decreasing.
InOrderOf(points, v, key(_)) ==
    \E order \in [1..Len(points) -> GroupRows(df_rows, v)] :
        /\ \A i \in 1..Len(points), j \in 1..Len(points) : i # j => order[i] # order[j]
        /\ Len(points) = GroupSize(v)
        /\ \A i \in 1..Len(points), j \in 1..Len(points) :
              i < j => key(order[i]) <= key(order[j])
        /\ \A j \in 1..Len(points) : points[j] = PointOf(order[j])

TimeKey(k) == df_rows[k].BaseDateTime[1]
FileKey(k) == df_rows[k].index

\* C22: the points of every emitted trajectory are in ascending order of the
\* timestamps when every row of the group has one, and in the order of the
\* file otherwise.
C22_PointsInTimestampOrder ==
    pc = "created rows" =>
        \A v \in DOMAIN trajectories :
            IF TimesPresent(v)
            THEN InOrderOf(trajectories[v], v, TimeKey)
            ELSE InOrderOf(trajectories[v], v, FileKey)

\* Row j of the file has an identifier, a latitude in [-90, 90] and a longitude
\* in [-180, 180].
Acceptable(j) ==
    LET row == raw_rows[j]
    IN /\ row.MMSI # << >> /\ row.LAT # << >> /\ row.LON # << >>
       /\ -90 <= row.LAT[1] /\ row.LAT[1] <= 90
       /\ -180 <= row.LON[1] /\ row.LON[1] <= 180

\* The rows of the loaded table that come from row j of the file.
KeptAs(j) == {k \in 1..Len(df_rows) : df_rows[k].index = j - 1}

C24_ProjectionAlwaysFallsBack ==
    pc \in {"projected", "project failed", "project empty"} =>
        /\ pc = "projected"
        /\ Len(projected_line) = Len(trajectory)
        /\ hit_count = count_self_proximity_hits(projected_line, proximity_threshold, "ok")

\* The relative error of the projected length against the length on the
\* ground is at most 1%.
WithinOnePercent(projected, ground) ==
    Abs(Length(projected) - Length(ground)) * 100 <= Length(ground)

\* C25: the length of a short trajectory computed on the projected plane is
\* within 1% of the great-circle length of the same points.
C25_ProjectedLengthWithinOnePercent ==
    pc = "projected" => WithinOnePercent(projected_line, trajectory)

\* Where the UTM zone could be constructed the lengths do agree.
UtmLengthWithinOnePercent ==
    (pc = "projected" /\ target_crs.proj = "utm") =>
        WithinOnePercent(projected_line, trajectory)

\* floor((lon + 180) / 6) + 1, lon in tenths of a degree.
FloorZone(lon) == ((lon + 1800) \div 60) + 1

\* C26: for every centroid with longitude in [-180, 180] and latitude in
\* [-90, 90] the zone requested is floor((lon + 180) / 6) + 1, one of the zones
\* 1..60, and the southern hemisphere is requested exactly when latitude < 0.
C26_ZoneIsOneOfSixty ==
    pc = "to_crs" =>
        /\ FloorZone(centroid[2]) \in 1..60
        /\ target_crs = [proj |-> "utm", zone |-> FloorZone(centroid[2]),
                         south |-> centroid[1] < 0]

\* West of the antimeridian the request is as stated.
ZoneIsOneOfSixtyBelow180 ==
    (pc = "to_crs" /\ centroid[2] < 1800) =>
        /\ FloorZone(centroid[2]) \in 1..60
        /\ target_crs = [proj |-> "utm", zone |-> FloorZone(centroid[2]),
                         south |-> centroid[1] < 0]

\* W = max(2, floor(0.1 * N)) and the number of pairs of N fixes that lie more
\* than W fixes apart.
StatedWindow(n) == IF n \div 10 > 2 THEN n \div 10 ELSE 2
MostHits(n) == ((n - StatedWindow(n)) * (n - StatedWindow(n) - 1)) \div 2

\* The metrics of a track with hits proximity hits, for every speed and every
\* extent on either side of the default thresholds.
MetricsWithHits(hits) ==
    [avg_sog : {NaN, <<0>>, <<DefaultSpeed - 1>>, <<DefaultSpeed>>},
     length_m : {0},
     bbox_width_m : {0, DefaultSize - 1, DefaultSize},
     bbox_height_m : {0, DefaultSize - 1, DefaultSize},
     proximity_hits : {hits}]

\* C27: a trajectory of N >= 5 points has between 0 and (N - W)(N - W - 1)/2
\* proximity hits; with the default thresholds a trajectory of 12 or fewer
\* points is therefore never classified as either kind of jitter, whatever
\* its speed and extent.
C27_HitsBoundedNoJitterUpToTwelve ==
    (pc \in {"counted", "count failed"} /\ Len(trajectory) >= 5) =>
        /\ 0 <= hit_count
        /\ hit_count <= MostHits(Len(trajectory))
        /\ Len(trajectory) <= 12 =>
              \A m \in MetricsWithHits(hit_count) :
                  Classify(m, THRESHOLDS) \notin {LikelyJitter, LikelyJitterNoSog}

\* A stationary vessel with twelve fixes collects every one of the 45 hits.
C27_Witness ==
    /\ pc = "counted"
    /\ Len(trajectory) = 12
    /\ hit_count = MostHits(12)
    /\ hit_count = 45

CounterNames ==
    {"jitter", "pattern_vlm", "no_prox", "processed", "plotted", "likely_survey",
     "possible_survey"}

\* The counters between two iterations of the vessel loop, and after it.
CountersAreOrdered ==
    /\ \A c \in CounterNames : counts[c] >= 0
    /\ pc \in {"loop", "save", "done"} =>
          /\ counts.jitter + counts.pattern_vlm + counts.no_prox <= counts.processed
          /\ counts.processed <= Cardinality(Visited)
          /\ counts.likely_survey + counts.possible_survey <= Len(pattern_info)
          /\ Len(pattern_info) <= counts.pattern_vlm
          /\ counts.plotted <= counts.jitter + counts.pattern_vlm + counts.no_prox

\* No step lowers a counter or touches a record of pattern_info.
CountersStep ==
    /\ \A c \in CounterNames : counts'[c] >= counts[c]
    /\ Len(pattern_info') >= Len(pattern_info)
    /\ \A k \in 1..Len(pattern_info) : pattern_info'[k] = pattern_info[k]

\* C28: after any prefix of the vessel loop the counters are non-negative and
\* have never decreased, the records of pattern_info were never modified or
\* removed, jitter + pattern_vlm + no_prox <= processed <= vessels visited,
\* likely_survey + possible_survey <= len(pattern_info) <= pattern_vlm, and
\* plotted <= jitter + pattern_vlm + no_prox.
C28_CountersGrowInOrder == [](CountersAreOrdered) /\ [][CountersStep]_vars

\* Between two iterations: the first vessel was skipped by the continue, so it
\* is visited but not processed, and the second is a recorded candidate.
C28_Witness ==
    /\ pc = "loop"
    /\ Cardinality(Visited) = 2
    /\ counts.processed = 1
    /\ counts.pattern_vlm = 1
    /\ Len(pattern_info) = 1
    /\ counts.plotted = 1

\* Vessel v was classified PotentialPattern and its image was rendered.
RenderedCandidate(v) ==
    /\ v \in Classified
    /\ printed[v] = PotentialPattern
    /\ v \in plot_files["pattern"]

\* C29: a record is appended to pattern_info for a vessel if and only if the
\* vessel was classified PotentialPattern and its image was rendered; the
\* verifier is called for exactly those vessels, so there are as many records
\* as calls; a PotentialPattern vessel whose rendering failed is counted in
\* pattern_vlm and has neither a call nor a record.
C29_RecordIffRenderedCandidate ==
    /\ Len(pattern_info) = Len(vlm_calls)
    /\ \A k \in 1..Len(pattern_info) : pattern_info[k].mmsi = vlm_calls[k]
    /\ \A v \in Vessels :
          /\ RowCount(v) > 0 => RenderedCandidate(v)
          /\ CallCount(v) > 0 => RenderedCandidate(v)
          /\ (Settled(v) /\ RenderedCandidate(v)) => RowCount(v) = 1 /\ CallCount(v) = 1
    /\ counts.pattern_vlm = NumClassified({PotentialPattern})
    /\ \A v \in Classified :
          (printed[v] = PotentialPattern /\ PlotError(v) \in error_log) =>
              /\ v \notin plot_files["pattern"]
              /\ RowCount(v) = 0
              /\ CallCount(v) = 0

\* The run is over; the rendering failed for one PotentialPattern vessel and
\* worked for the other, and both are counted in pattern_vlm.
C29_Witness ==
    /\ pc = "done"
    /\ counts.pattern_vlm = 2
    /\ \E v \in Classified : printed[v] = PotentialPattern /\ PlotError(v) \in error_log
    /\ \E v \in Classified : RenderedCandidate(v) /\ RowCount(v) = 1 /\ CallCount(v) = 1
    /\ Len(pattern_info) = 1
    /\ Len(vlm_calls) = 1

StreamStates == {"stream", "stream done", "stream raised"}

\* The rows of the input before row k that belong to the vessel of row k.
EarlierOfSameVessel(k) == {j \in 1..(k - 1) : fin[j].MMSI = fin[k].MMSI}

\* The flags of input row k as stated: computed from row k and the nearest
\* earlier row of the same vessel alone, as if the file held only these two.
StatedFlags(k) ==
    IF EarlierOfSameVessel(k) = {}
    THEN Flags(fin[k], << >>)
    ELSE LET j == SetMax(EarlierOfSameVessel(k))
         IN Flags(fin[k], [x \in {fin[j].MMSI} |-> Parsed(fin[j])])

RuleFlags == {"flag_speed", "flag_offline", "flag_low_freq", "flag_heading", "flag_distance"}

\* What is stated of the rows written so far and of prev.
StreamRowsAsStated ==
    /\ Len(fout) <= Len(fin)
    /\ \A k \in 1..Len(fout) :
          /\ fout[k].row = fin[k]
          /\ fout[k].flags = StatedFlags(k)
          /\ EarlierOfSameVessel(k) = {} =>
                /\ fout[k].flags.flag_offline = "0"
                /\ fout[k].flags.flag_low_freq = "0"
                /\ fout[k].flags.flag_heading = "0"
                /\ fout[k].flags.flag_distance = "0"
          /\ fout[k].flags.flag_any = "1" <=> \E f \in RuleFlags : fout[k].flags[f] = "1"
          /\ fout[k].flags.flag_offline = "1" => fout[k].flags.flag_low_freq = "1"
    /\ DOMAIN prev = {fout[k].row.MMSI : k \in 1..Len(fout)}
    /\ \A m \in DOMAIN prev :
          prev[m] = Parsed(fin[SetMax({k \in 1..Len(fout) : fin[k].MMSI = m})])

====
